---------------------------- MODULE Spec2Model ----------------------------
(***************************************************************************)
(* State-machine model of the smooth-cursor overlay (CursorRenderer and    *)
(* the services and managers it owns, AnimationEngine, and the host        *)
(* editor surfaces it attaches to).                                        *)
(*                                                                         *)
(* Every method of the source is an operator that maps the whole program   *)
(* state (the record S built from the variables) to the state after the    *)
(* call; an action runs one handler or callback to completion and commits  *)
(* the resulting record.  Lengths are integers in units of 1/Scale px.     *)
(***************************************************************************)
EXTENDS Integers, Sequences, FiniteSets, TLC

VARIABLES
  ren,       \* CursorRenderer fields
  cem,       \* CursorElementManager: cursorEl and the element's style/dataset
  doc,       \* ids of the '.smooth-cursor' elements connected to the document
  esm,       \* EditorStateManager fields
  em,        \* EventManager.listeners
  nch,       \* NativeCursorHider fields
  cs,        \* CoordinateService fields
  cms,       \* CharacterMeasurementService fields
  dcd,       \* DOMChangeDetectorService fields
  eng,       \* AnimationEngine fields
  host,      \* the host surfaces: selection, focus, classes, dispatch, listeners
  cb,        \* callbacks in flight: animation frames and timers not owned by a field
  tm,        \* which throttle windows (performance.now() differences) are still open
  settings,  \* plugin.settings
  hist,      \* history: session counter, last operation, element id counter
  log,       \* what the last step did (calls made, values handed over)
  rIn,       \* input of the call under check (services and pure functions)
  rOut       \* its result

vars == <<ren, cem, doc, esm, em, nch, cs, cms, dcd, eng, host, cb, tm,
          settings, hist, log, rIn, rOut>>

-----------------------------------------------------------------------------
(* Bounds of the model *)

\* caret offsets are 0..MaxPos; every document has MaxPos characters
MaxPos == 1
\* number of attach calls that establish a session
MaxSession == 2
\* length units per pixel
Scale == 100
\* number of plugin calls and host events in a run (the frames and timers
\* they leave behind fire without a bound)
MaxEvents == 4
\* calls made on the animation engine when it is checked on its own
MaxCalls == 2

Views == {"A", "B"}
NoView == "none"
Pos == 0..MaxPos
Modes == {"normal", "insert", "replace"}

-----------------------------------------------------------------------------
(* IEEE-754 values: the integers plus NaN and the two infinities *)

NaN == 0 - 9000001
PosInf == 9000000 + 0
NegInf == 0 - 9000000

isNaN(x) == x = NaN
isFinite(x) == x \notin {NaN, PosInf, NegInf}

FNeg(x) == IF x = NaN THEN NaN
           ELSE IF x = PosInf THEN NegInf
           ELSE IF x = NegInf THEN PosInf ELSE 0 - x

FAdd(a, b) ==
  IF a = NaN \/ b = NaN THEN NaN
  ELSE IF a = PosInf THEN (IF b = NegInf THEN NaN ELSE PosInf)
  ELSE IF a = NegInf THEN (IF b = PosInf THEN NaN ELSE NegInf)
  ELSE IF b \in {PosInf, NegInf} THEN b
  ELSE a + b

FSub(a, b) == FAdd(a, FNeg(b))

FMul(a, b) ==
  IF a = NaN \/ b = NaN THEN NaN
  ELSE IF isFinite(a) /\ isFinite(b) THEN a * b
  ELSE IF a = 0 \/ b = 0 THEN NaN
  ELSE IF (a > 0) = (b > 0) THEN PosInf ELSE NegInf

\* a * (num / den) for a factor num/den > 0, rounded to the nearest unit
FScale(a, num, den) ==
  IF isFinite(a) THEN (2 * a * num + den) \div (2 * den) ELSE a

\* a < b and a > b (false as soon as one side is NaN)
FLt(a, b) == a # NaN /\ b # NaN /\ a < b
FGt(a, b) == FLt(b, a)
FLe(a, b) == a # NaN /\ b # NaN /\ a <= b

Px(n) == n * Scale

-----------------------------------------------------------------------------
(* Values *)

NoCoords == [left |-> 0, top |-> 0, src |-> "null"]
Coords(l, t, v) == [left |-> l, top |-> t, src |-> v]

NoPosition == [x |-> 0, y |-> 0, width |-> 0, height |-> 0, nil |-> TRUE]
Position(x, y, w, h) == [x |-> x, y |-> y, width |-> w, height |-> h, nil |-> FALSE]

\* the first character (code point) of the document of each surface;
\* the surfaces other than A and B exist only where the width measurement
\* is checked on its own
CodePoint(v) ==
  CASE v = "A" -> 97        \* a
    [] v = "B" -> 20013     \* U+4E2D, CJK ideograph
    [] v = "G" -> 945       \* U+03B1, Greek
    [] v = "S" -> 12288     \* U+3000, CJK symbols
    [] v = "K" -> 12354     \* U+3042, Kana
    [] v = "X" -> 13312     \* U+3400, CJK extension A
    [] v = "H" -> 44032     \* U+AC00, Hangul
    [] v = "F" -> 65281     \* U+FF01, fullwidth form
    [] OTHER   -> 128512    \* U+1F600, above 0x1F000

\* the elements of a JavaScript string that holds one code point
utf16(cp) ==
  IF cp > 65535
  THEN <<55296 + ((cp - 65536) \div 1024), 56320 + ((cp - 65536) % 1024)>>
  ELSE <<cp>>

\* the code units of a surface's one-line document: text[i].charCodeAt(0)
DocOf(v) ==
  IF v \in Views
  THEN [i \in 1..MaxPos |->
          IF v = "A" THEN 97 ELSE IF i % 2 = 1 THEN 20013 ELSE 98]
  ELSE utf16(CodePoint(v))

\* DEFAULT_SETTINGS.cursorShapes
cursorShapes(mode) ==
  CASE mode = "normal"  -> "block"
    [] mode = "insert"  -> "line"
    [] mode = "visual"  -> "block"
    [] mode = "replace" -> "underline"
    [] OTHER            -> "block"

\* an entry of the step log: the call made and the position it carried
Ev(name) == [ev |-> name, pos |-> NoPosition]
EvPos(name, p) == [ev |-> name, pos |-> p]
Log(s, e) == [s EXCEPT !.log = @ \cup {e}]

\* Let(v, F) is F(v): the result of a call, named for what follows it
\* (v is evaluated once, also where ENABLED is evaluated)
Let(v, F(_)) == CHOOSE y \in {F(x) : x \in {v}} : TRUE

-----------------------------------------------------------------------------
(* cursor-utils: calculateCursorDimensions *)

\* the function without its underline offset
calculateCursorDimensions_noOffset(pos, shape) ==
  CASE shape = "line" ->
         [width |-> Px(2), height |-> pos.height, yOffset |-> 0]
    [] shape = "underline" ->
         [width |-> pos.width, height |-> Px(2), yOffset |-> 0]
    [] OTHER ->
         [width |-> pos.width, height |-> pos.height, yOffset |-> 0]

calculateCursorDimensions(pos, shape) ==
  CASE shape = "line" ->
         [width |-> Px(2), height |-> pos.height, yOffset |-> 0]
    [] shape = "underline" ->
         [width |-> pos.width, height |-> Px(2),
          yOffset |-> FSub(pos.height, Px(2))]
    [] OTHER ->
         [width |-> pos.width, height |-> pos.height, yOffset |-> 0]

-----------------------------------------------------------------------------
(* CursorElementManager *)

NewElement == [display |-> "none", left |-> 0, top |-> 0, width |-> 0,
               height |-> 0, shape |-> "", moving |-> FALSE,
               breathing |-> FALSE]

\* hide() parks the element at -9999px
Parked == Px(0 - 9999)
HiddenLimit == Px(0 - 1000)

isElementConnected(s) == s.cem.cursorEl # 0 /\ s.cem.cursorEl \in s.doc

cem_create_keepOld(s) ==
  LET id == s.hist.nextEl
  IN Log([s EXCEPT !.cem.cursorEl = id, !.cem.el = NewElement,
                   !.doc = @ \cup {id}, !.hist.nextEl = id + 1,
                   !.hist.removedByHost = FALSE], Ev("create"))

cem_create(s) ==
  LET id == s.hist.nextEl
      \* cursorEl.remove(), then every '.smooth-cursor' of the document
  IN Log([s EXCEPT !.cem.cursorEl = id, !.cem.el = NewElement,
                   !.doc = {id}, !.hist.nextEl = id + 1,
                   !.hist.removedByHost = FALSE], Ev("create"))

cem_updateShape(s, shape) ==
  IF s.cem.cursorEl = 0 THEN s ELSE [s EXCEPT !.cem.el.shape = shape]

\* style.x = `${v}px`: the declaration is dropped when v is not a finite
\* number (and, for a size, when it is negative)
CssLength(old, v) == IF isFinite(v) THEN v ELSE old
CssSize(old, v) == IF isFinite(v) /\ v >= 0 THEN v ELSE old

cem_updatePosition(s, x, y, width, height, useTransform, yOffset) ==
  IF s.cem.cursorEl = 0 THEN s
  ELSE LET e == s.cem.el
           e1 == IF useTransform
                 THEN [e EXCEPT !.left = 0, !.top = 0]
                 ELSE [e EXCEPT !.left = CssLength(@, x),
                                !.top = CssLength(@, FAdd(y, yOffset))]
           e2 == [e1 EXCEPT !.width = CssSize(@, width),
                            !.height = CssSize(@, height)]
       IN Log([s EXCEPT !.cem.el = e2],
              EvPos("written", Position(x, y, width, height)))

cem_show(s) ==
  IF s.cem.cursorEl = 0 THEN s
  ELSE Log([s EXCEPT !.cem.el.display = "block"], Ev("show"))

\* hide() that takes the element out of the document
cem_hide_removes(s) ==
  IF s.cem.cursorEl = 0 THEN s
  ELSE Log([s EXCEPT !.doc = @ \ {s.cem.cursorEl}], Ev("hide"))

cem_hide(s) ==
  IF s.cem.cursorEl = 0 THEN s
  ELSE Log([s EXCEPT !.cem.el.display = "none", !.cem.el.left = Parked,
                     !.cem.el.top = Parked], Ev("hide"))

cem_setBreathing(s, enabled) ==
  IF s.cem.cursorEl = 0 THEN s ELSE [s EXCEPT !.cem.el.breathing = enabled]

cem_setMoving(s, isMoving) ==
  IF s.cem.cursorEl = 0 THEN s ELSE [s EXCEPT !.cem.el.moving = isMoving]

cem_remove(s) ==
  IF s.cem.cursorEl = 0 THEN s
  ELSE Log([s EXCEPT !.doc = @ \ {s.cem.cursorEl}, !.cem.cursorEl = 0],
           Ev("remove"))

elShape(s) == IF s.cem.el.shape = "" THEN "block" ELSE s.cem.el.shape

-----------------------------------------------------------------------------
(* editor-utils *)

isEditorFocused(s, v) == v # NoView /\ s.host.focused = v

\* editorView.defaultCharacterWidth || 8, editorView.defaultLineHeight || 20
getDefaultCharWidth(v) == Px(8)
getDefaultLineHeight(v) == Px(20)

-----------------------------------------------------------------------------
(* CursorRenderer: the two callbacks the engine is given *)

applyCursorPosition(s, pos) ==
  IF s.cem.cursorEl = 0 THEN s
  ELSE LET shape == elShape(s)
           yOffset == IF shape = "underline" /\ s.ren.editorView # NoView
                      THEN FSub(getDefaultLineHeight(s.ren.editorView), pos.height)
                      ELSE 0
       IN cem_updatePosition(s, pos.x, pos.y, pos.width, pos.height,
                             s.settings.useTransformAnimation, yOffset)

\* clears the pending resume timer, then sets 'moving' or arms the timer
handleMovementState(s, isMoving) ==
  LET s1 == [s EXCEPT !.ren.movementResumeTimeout = FALSE]
  IN IF isMoving
     THEN cem_setMoving([s1 EXCEPT !.ren.isCurrentlyMoving = TRUE], TRUE)
     ELSE [s1 EXCEPT !.ren.movementResumeTimeout = TRUE]

\* the timer armed by handleMovementState(false), 300 ms later
movementResumeFired(s) ==
  cem_setMoving([s EXCEPT !.ren.movementResumeTimeout = FALSE,
                          !.ren.isCurrentlyMoving = FALSE], FALSE)

-----------------------------------------------------------------------------
(* AnimationEngine *)

\* a factor that is smaller for the durations below 100 ms
lerpFactorOf_slowIsFast(duration) ==
  <<IF duration < 100 THEN 10 ELSE 16, 100>>

\* min(1, 16 / max(duration, 16)) as the fraction <<numerator, denominator>>
lerpFactorOf(duration) == <<16, IF duration > 16 THEN duration ELSE 16>>

updateLerpFactor(s) ==
  LET d == s.settings.animationDuration
      td == s.settings.insertModeAnimationDuration
      s1 == IF d # s.eng.cachedAnimationDuration
            THEN [s EXCEPT !.eng.cachedAnimationDuration = d,
                           !.eng.cachedLerpFactor = lerpFactorOf(d)]
            ELSE s
  IN IF td # s1.eng.cachedTypingAnimationDuration
     THEN [s1 EXCEPT !.eng.cachedTypingAnimationDuration = td,
                     !.eng.cachedTypingLerpFactor = lerpFactorOf(td)]
     ELSE s1

\* clearTimeout(this.movementStateTimeout) when it is not null.
\* cb.movementTimers counts the movement-stopped timers the browser holds
clearMovementTimeout(s) ==
  IF s.eng.movementStateTimeout
  THEN [s EXCEPT !.eng.movementStateTimeout = FALSE,
                 !.cb.movementTimers = IF @ > 0 THEN @ - 1 ELSE @]
  ELSE s

\* notifyMovementStarted that leaves a pending stop notification armed
notifyMovementStarted_keepsTimer(s) ==
  IF ~s.eng.isMovementActive
  THEN Log(handleMovementState(
             [s EXCEPT !.eng.isMovementActive = TRUE], TRUE),
           Ev("movementStarted"))
  ELSE s

notifyMovementStarted(s) ==
  LET s1 == IF ~s.eng.isMovementActive
            THEN Log(handleMovementState(
                       [s EXCEPT !.eng.isMovementActive = TRUE], TRUE),
                     Ev("movementStarted"))
            ELSE s
  IN clearMovementTimeout(s1)

\* scheduleMovementStopped that arms a timer beside the one pending
scheduleMovementStopped_noClear(s) ==
  [s EXCEPT !.eng.movementStateTimeout = TRUE, !.cb.movementTimers = @ + 1]

scheduleMovementStopped(s) ==
  [clearMovementTimeout(s) EXCEPT !.eng.movementStateTimeout = TRUE,
                                  !.cb.movementTimers = @ + 1]

\* the timer armed by scheduleMovementStopped, 250 ms later
movementStoppedFired(s) ==
  LET s1 == [s EXCEPT !.eng.movementStateTimeout = FALSE]
  IN IF s1.eng.isMovementActive
     THEN Log(handleMovementState(
                [s1 EXCEPT !.eng.isMovementActive = FALSE], FALSE),
              Ev("movementStopped"))
     ELSE s1

\* this.onFrameCallback?.(pos): the callback is the renderer's
\* applyCursorPosition; hist.emitted lists what the step handed to it
onFrameCallback(s, pos) ==
  applyCursorPosition([s EXCEPT !.hist.emitted = Append(@, pos)], pos)

\* cancelAnimationFrame(this.rafId); this.rafId = null, when it is not
\* null.  cb.engineFrames counts the engine's frame callbacks the browser
\* still holds
cancelAnimationFrame(s) ==
  IF s.eng.rafId
  THEN [s EXCEPT !.eng.rafId = FALSE,
                 !.cb.engineFrames = IF @ > 0 THEN @ - 1 ELSE @]
  ELSE s

startAnimationLoop(s) ==
  [cancelAnimationFrame(s) EXCEPT !.eng.rafId = TRUE,
                                  !.cb.engineFrames = @ + 1]

\* setPositionDirect without the call of the frame callback
setPositionDirect_silent(s, pos) ==
  [s EXCEPT !.eng.currentPos = pos, !.eng.targetPos = pos]

setPositionDirect(s, pos) ==
  onFrameCallback([s EXCEPT !.eng.currentPos = pos, !.eng.targetPos = pos],
                  pos)

\* setImmediate that leaves the frame loop as it is
eng_setImmediate_noCancel(s, position) ==
  setPositionDirect(Log(s, EvPos("setImmediate", position)), position)

eng_setImmediate(s, position) ==
  setPositionDirect(
    Log([cancelAnimationFrame(s) EXCEPT !.eng.isAnimating = FALSE],
        EvPos("setImmediate", position)),
    position)

\* animateTo that lets a running loop finish on the target it has
animateTo_firstTarget(s, target, isTyping) ==
  LET s0 == Log([s EXCEPT !.eng.isCurrentlyTyping = isTyping],
                EvPos("animateTo", target))
  IN IF ~s.settings.enableAnimation
        \/ (isTyping /\ ~s.settings.enableInsertModeAnimation)
     THEN scheduleMovementStopped(
            setPositionDirect(notifyMovementStarted(s0), target))
     ELSE Let(notifyMovementStarted(
                updateLerpFactor(
                  [s0 EXCEPT !.eng.targetPos =
                               IF s.eng.isAnimating THEN @ ELSE target,
                             !.eng.isStopped = FALSE])),
              LAMBDA s2 :
                IF ~s2.eng.isAnimating
                THEN startAnimationLoop([s2 EXCEPT !.eng.isAnimating = TRUE])
                ELSE s2)

\* animateTo that asks for a frame whether or not the loop is running
animateTo_restarts(s, target, isTyping) ==
  LET s0 == Log([s EXCEPT !.eng.isCurrentlyTyping = isTyping],
                EvPos("animateTo", target))
  IN IF ~s.settings.enableAnimation
        \/ (isTyping /\ ~s.settings.enableInsertModeAnimation)
     THEN scheduleMovementStopped(
            setPositionDirect(notifyMovementStarted(s0), target))
     ELSE Let(notifyMovementStarted(
                updateLerpFactor([s0 EXCEPT !.eng.targetPos = target,
                                            !.eng.isStopped = FALSE])),
              LAMBDA s2 :
                [s2 EXCEPT !.eng.isAnimating = TRUE, !.eng.rafId = TRUE,
                           !.cb.engineFrames = @ + 1])

animateTo(s, target, isTyping) ==
  LET s0 == Log([s EXCEPT !.eng.isCurrentlyTyping = isTyping],
                EvPos("animateTo", target))
  IN IF ~s.settings.enableAnimation
        \/ (isTyping /\ ~s.settings.enableInsertModeAnimation)
     THEN scheduleMovementStopped(
            setPositionDirect(notifyMovementStarted(s0), target))
     ELSE Let(notifyMovementStarted(
                updateLerpFactor([s0 EXCEPT !.eng.targetPos = target,
                                            !.eng.isStopped = FALSE])),
              LAMBDA s2 :
                IF ~s2.eng.isAnimating
                THEN startAnimationLoop([s2 EXCEPT !.eng.isAnimating = TRUE])
                ELSE s2)

eng_stop(s) ==
  scheduleMovementStopped(
    [cancelAnimationFrame(s) EXCEPT !.eng.isAnimating = FALSE,
              !.eng.isStopped = TRUE])

\* a step of the same length away from the target
lerp_away(cur, tgt, f) == FSub(cur, FScale(FSub(tgt, cur), f[1], f[2]))

lerp(cur, tgt, f) == FAdd(cur, FScale(FSub(tgt, cur), f[1], f[2]))

\* distanceSquared < 0.25 and dimensionDeltaSquared < 0.01 (px^2)
FSquare(d) == FMul(d, d)

closeEnough(cur, tgt) ==
  LET distanceSquared == FAdd(FSquare(FSub(tgt.x, cur.x)),
                              FSquare(FSub(tgt.y, cur.y)))
      dimensionDeltaSquared == FAdd(FSquare(FSub(tgt.width, cur.width)),
                                    FSquare(FSub(tgt.height, cur.height)))
  IN /\ FLt(FMul(4, distanceSquared), Scale * Scale)
     /\ FLt(FMul(100, dimensionDeltaSquared), Scale * Scale)

\* one animation frame of the engine's loop
animate(s) ==
  IF ~s.eng.isAnimating \/ s.eng.isStopped
  THEN scheduleMovementStopped([s EXCEPT !.eng.rafId = FALSE])
  ELSE LET f == IF s.eng.isCurrentlyTyping THEN s.eng.cachedTypingLerpFactor
                ELSE s.eng.cachedLerpFactor
           c == s.eng.currentPos
           t == s.eng.targetPos
       IN Let(Position(lerp(c.x, t.x, f), lerp(c.y, t.y, f),
                       lerp(c.width, t.width, f), lerp(c.height, t.height, f)),
              LAMBDA n :
          Let(onFrameCallback([s EXCEPT !.eng.currentPos = n], n),
              LAMBDA s1 :
            IF closeEnough(n, t)
            THEN scheduleMovementStopped(
                   onFrameCallback(
                     [s1 EXCEPT !.eng.currentPos = t, !.eng.isAnimating = FALSE,
                                !.eng.isCurrentlyTyping = FALSE,
                                !.eng.rafId = FALSE], t))
            ELSE [s1 EXCEPT !.eng.rafId = TRUE,
                            !.cb.engineFrames = @ + 1]))

-----------------------------------------------------------------------------
(* EditorStateManager *)

setEditorActiveClass(s, active) ==
  LET v == s.esm.editorView
  IN IF v = NoView THEN s
     ELSE IF active
     THEN IF v \notin s.host.marker
          THEN [s EXCEPT !.host.marker = @ \cup {v},
                         !.esm.cachedEditorHasActiveClass = TRUE]
          ELSE s
     ELSE IF v \in s.host.marker
          THEN [s EXCEPT !.host.marker = @ \ {v},
                         !.esm.cachedEditorHasActiveClass = FALSE]
          ELSE s

\* detach() of a manager that leaves the class on the surface it leaves
esm_detach_keepClass(s) ==
  [s EXCEPT !.esm.editorView = NoView, !.esm.cachedIsFocused = FALSE,
            !.esm.cachedEditorHasActiveClass = FALSE]

esm_detach(s) ==
  [setEditorActiveClass(s, FALSE) EXCEPT
     !.esm.editorView = NoView, !.esm.cachedIsFocused = FALSE,
     !.esm.cachedEditorHasActiveClass = FALSE]

\* tm.focusFresh: now - lastFocusCheckTime <= focusCheckInterval
\* the log tells whether the call asked the DOM (focusQuery) or answered
\* from the cache (focusCached), and whether it answered true (focusYes)
Answered(s, name) ==
  LET s1 == Log(s, Ev(name))
  IN IF s.ret THEN Log(s1, Ev("focusYes")) ELSE s1

\* isFocused that throttles a forced check like an unforced one
isFocused_throttlesForced(s, forceCheck) ==
  IF s.esm.editorView = NoView THEN [s EXCEPT !.ret = FALSE]
  ELSE IF ~s.tm.focusFresh
  THEN LET f == isEditorFocused(s, s.esm.editorView)
       IN Answered([s EXCEPT !.tm.focusFresh = TRUE,
                             !.esm.cachedIsFocused = f, !.ret = f],
                   "focusQuery")
  ELSE Answered([s EXCEPT !.ret = s.esm.cachedIsFocused], "focusCached")

\* tm.focusFresh: now - lastFocusCheckTime <= focusCheckInterval
isFocused(s, forceCheck) ==
  IF s.esm.editorView = NoView THEN [s EXCEPT !.ret = FALSE]
  ELSE IF forceCheck \/ ~s.tm.focusFresh
  THEN LET f == isEditorFocused(s, s.esm.editorView)
       IN Answered([s EXCEPT !.tm.focusFresh = TRUE,
                             !.esm.cachedIsFocused = f, !.ret = f],
                   "focusQuery")
  ELSE Answered([s EXCEPT !.ret = s.esm.cachedIsFocused], "focusCached")

\* tm.healthFresh: now - lastHealthCheckTime < healthCheckInterval
ensureHealth(s, forceCheck) ==
  IF s.esm.editorView = NoView THEN s
  ELSE IF ~forceCheck /\ s.tm.healthFresh THEN s
  ELSE LET s1 == [s EXCEPT !.tm.healthFresh = TRUE]
           s2 == IF ~s1.esm.cachedEditorHasActiveClass
                 THEN [setEditorActiveClass(s1, TRUE) EXCEPT
                         !.esm.cachedEditorHasActiveClass = TRUE]
                 ELSE s1
       IN IF s2.esm.editorView \notin s2.host.marker
          THEN [s2 EXCEPT !.host.marker = @ \cup {s2.esm.editorView},
                          !.esm.cachedEditorHasActiveClass = TRUE]
          ELSE s2

esm_attach(s, editorView) ==
  ensureHealth(
    [s EXCEPT !.esm.editorView = editorView,
              !.esm.cachedIsFocused = isEditorFocused(s, editorView),
              !.esm.cachedEditorHasActiveClass = FALSE],
    FALSE)

-----------------------------------------------------------------------------
(* EventManager.  A listener is the closure a session registered on a      *)
(* target for an event; host.domListeners are the registrations the        *)
(* targets themselves hold.                                                *)

Listener(s, target, event) ==
  [target |-> target, event |-> event, sess |-> s.hist.session]

addEventListener(s, target, event) ==
  Log([s EXCEPT !.host.domListeners = @ \cup {Listener(s, target, event)},
                !.em = @ \cup {Listener(s, target, event)}],
      Ev("addEventListener"))

removeAll(s) ==
  [s EXCEPT !.host.domListeners = @ \ s.em, !.em = {}]

-----------------------------------------------------------------------------
(* NativeCursorHider.  host.overrides holds the surfaces whose caret       *)
(* elements and content node carry the inline overrides;                   *)
(* host.contentBare those whose content node has lost its caret-color to   *)
(* the host since.  The DOM-change detector observes the same subtree for  *)
(* class and style attributes, so it receives a record for every write     *)
(* that changes a style attribute.                                         *)

\* the places of a surface an attribute record can name as its target: the
\* content node, a line, a node inside a line, a block widget between the
\* lines, a caret element (in the cursor layer, beside the content node)
\* and the scroller
Targets == {"content", "line", "inLine", "widget", "caret", "scroller"}

isLayoutAffectingChange(target) ==
  IF target \notin {"content", "line", "inLine", "widget"} THEN FALSE
  ELSE target \in {"line", "content", "inLine"}

\* handleChange(): clears the debounce timer and arms it anew
handleChange(s) == [s EXCEPT !.dcd.debounceTimeout = TRUE]

\* the detector's observer callback for class or style records on targets
dcd_attributeRecords(s, targets) ==
  IF ~s.dcd.isActive \/ s.dcd.isProcessing THEN s
  ELSE IF \E target \in targets : isLayoutAffectingChange(target)
  THEN Log(handleChange(s), Ev("layoutAffecting"))
  ELSE s

hideNativeCursors(s) ==
  IF s.nch.editorView = NoView THEN s
  ELSE LET v == s.nch.editorView
           written == IF v \in s.host.contentBare THEN {"content"}
                      ELSE IF v \notin s.host.overrides THEN {"caret"}
                      ELSE {}
           s1 == [s EXCEPT !.host.overrides = @ \cup {v},
                           !.host.contentBare = @ \ {v}]
       IN IF written # {} /\ s1.dcd.observer /\ s1.dcd.editorView = v
          THEN dcd_attributeRecords(s1, written)
          ELSE s1

restoreNativeCursors(s) ==
  IF s.nch.editorView = NoView THEN s
  ELSE [s EXCEPT !.host.overrides = @ \ {s.nch.editorView},
                 !.host.contentBare = @ \ {s.nch.editorView}]

\* detach() without restoreNativeCursors()
nch_detach_keepsOverrides(s) ==
  [s EXCEPT !.nch.isActive = FALSE, !.nch.observer = FALSE,
            !.nch.editorView = NoView]

nch_detach(s) ==
  LET s1 == [s EXCEPT !.nch.isActive = FALSE, !.nch.observer = FALSE]
      s2 == IF s1.nch.editorView # NoView THEN restoreNativeCursors(s1) ELSE s1
  IN [s2 EXCEPT !.nch.editorView = NoView]

\* setupObserver(): observe, then startPeriodicCheck() (which first clears
\* the previous interval)
nch_setupObserver(s) ==
  IF s.nch.editorView = NoView THEN s
  ELSE [s EXCEPT !.nch.observer = TRUE, !.nch.periodicCheckInterval = TRUE]

nch_attach(s, editorView) ==
  nch_setupObserver(
    hideNativeCursors(
      [nch_detach(s) EXCEPT !.nch.editorView = editorView,
                            !.nch.isActive = TRUE]))

forceHide(s) == hideNativeCursors(s)

\* the observer saw a caret element appear: one frame later it hides again
nch_observed(s) ==
  IF ~s.nch.isActive THEN s ELSE [s EXCEPT !.nch.raf = TRUE]

nch_frame(s) ==
  LET s1 == [s EXCEPT !.nch.raf = FALSE]
  IN IF s1.nch.isActive THEN hideNativeCursors(s1) ELSE s1

\* one tick of the 100 ms interval
nch_interval(s) ==
  IF s.nch.isActive THEN hideNativeCursors(s)
  ELSE [s EXCEPT !.nch.periodicCheckInterval = FALSE]

-----------------------------------------------------------------------------
(* dom-utils and editor-utils: the coordinate fallback chain *)

\* a host answer: what coordsAtPos and the native caret element yield now
NoCaret == [present |-> FALSE, left |-> 0, top |-> 0, width |-> 0, height |-> 0]
Caret(l, t, w, h) == [present |-> TRUE, left |-> l, top |-> t, width |-> w, height |-> h]

getNativeCursorPosition(caret, v) ==
  IF caret.present /\ (FGt(caret.width, 0) \/ FGt(caret.height, 0))
  THEN Coords(caret.left, caret.top, v)
  ELSE NoCoords

Tag(c, v) == IF c = NoCoords THEN NoCoords ELSE [c EXCEPT !.src = v]

\* the chain with strategies 1 and 2 tried in the opposite order
getCursorCoords_swapped(v, in, lastSuccessfulCoords) ==
  IF in.s2 # NoCoords THEN Tag(in.s2, v)
  ELSE IF in.s1 # NoCoords THEN Tag(in.s1, v)
  ELSE IF getNativeCursorPosition(in.caret, v) # NoCoords
       THEN getNativeCursorPosition(in.caret, v)
  ELSE lastSuccessfulCoords

getCursorCoords(v, in, lastSuccessfulCoords) ==
  IF in.s1 # NoCoords THEN Tag(in.s1, v)
  ELSE IF in.s2 # NoCoords THEN Tag(in.s2, v)
  ELSE IF getNativeCursorPosition(in.caret, v) # NoCoords
       THEN getNativeCursorPosition(in.caret, v)
  ELSE IF lastSuccessfulCoords # NoCoords THEN lastSuccessfulCoords
  ELSE NoCoords

-----------------------------------------------------------------------------
(* CoordinateService.  coordsCache is the Map in insertion order; an       *)
(* entry is fresh while now - timestamp < coordsCacheMaxAge.               *)

coordsCacheMaxSize == 10

cs_attach(s, editorView) == [s EXCEPT !.cs.editorView = editorView]

\* detach() that keeps what it resolved
cs_detach_keepCache(s) == [s EXCEPT !.cs.editorView = NoView]

cs_detach(s) ==
  [s EXCEPT !.cs.editorView = NoView, !.cs.lastSuccessfulCoords = NoCoords,
            !.cs.coordsCache = <<>>]

\* the entries of the cache once the host has changed the content they were
\* resolved from (old is history: the service cannot see it)
Outdated(cache) == [i \in 1..Len(cache) |-> [cache[i] EXCEPT !.old = TRUE]]

cacheIndex(cache, pos) ==
  IF \E i \in 1..Len(cache) : cache[i].pos = pos
  THEN CHOOSE i \in 1..Len(cache) : cache[i].pos = pos
  ELSE 0

getCursorCoordsCached(s, pos, in) ==
  IF s.cs.editorView = NoView THEN [s EXCEPT !.ret = NoCoords]
  ELSE LET cache == s.cs.coordsCache
           i == cacheIndex(cache, pos)
       IN IF i # 0 /\ cache[i].fresh
          THEN [Log(Log(s, Ev("cacheHit")),
                    Ev(IF cache[i].old THEN "staleHit" ELSE "freshHit"))
                  EXCEPT !.ret = cache[i].coords]
          ELSE Let(getCursorCoords(s.cs.editorView, in,
                                   s.cs.lastSuccessfulCoords),
                   LAMBDA coords :
               LET s1 == Log(s, Ev("resolve"))
                   entry == [pos |-> pos, coords |-> coords, fresh |-> TRUE,
                             old |-> FALSE]
                   c1 == IF i # 0 THEN [cache EXCEPT ![i] = entry]
                         ELSE Append(cache, entry)
                   c2 == IF Len(c1) > coordsCacheMaxSize THEN Tail(c1) ELSE c1
               IN IF coords # NoCoords
                  THEN [s1 EXCEPT !.cs.lastSuccessfulCoords = coords,
                                  !.cs.coordsCache = c2, !.ret = coords]
                  ELSE [s1 EXCEPT !.ret = NoCoords])

cs_clearCache(s) == Log([s EXCEPT !.cs.coordsCache = <<>>], Ev("clearCache"))

-----------------------------------------------------------------------------
(* CharacterMeasurementService.  charWidthCache is a set of entries        *)
(* [ch, width, src], at most one per character.                            *)

cms_attach(s, editorView) == [s EXCEPT !.cms.editorView = editorView]

cms_detach(s) ==
  [s EXCEPT !.cms.editorView = NoView, !.cms.charWidthCache = {}]

cms_clearCache(s) == [s EXCEPT !.cms.charWidthCache = {}]

isWideCode(code) ==
  \/ (code >= 19968 /\ code <= 40959)
  \/ (code >= 13312 /\ code <= 19903)
  \/ (code >= 12288 /\ code <= 12351)
  \/ (code >= 65280 /\ code <= 65519)
  \/ (code >= 44032 /\ code <= 55215)
  \/ (code >= 12352 /\ code <= 12543)
  \/ code > 126976

estimateCharWidth(v, code) ==
  IF isWideCode(code) THEN getDefaultCharWidth(v) * 2 ELSE getDefaultCharWidth(v)

\* (pos < docLength and the character exists)
measureCharacterWidth(v, pos, in) ==
  LET d == DocOf(v)
  IN IF pos >= Len(d) THEN getDefaultCharWidth(v)
     ELSE IF in.s1 # NoCoords /\ in.endc # NoCoords
             /\ FGt(FSub(in.endc.left, in.s1.left), 0)
     THEN FSub(in.endc.left, in.s1.left)
     ELSE estimateCharWidth(v, d[pos + 1])

measureCharacterWidthCached(s, pos, in) ==
  LET v == s.cms.editorView
  IN IF v = NoView THEN [s EXCEPT !.ret = Px(8)]
     ELSE IF pos >= Len(DocOf(v)) THEN [s EXCEPT !.ret = getDefaultCharWidth(v)]
     ELSE LET ch == DocOf(v)[pos + 1]
              hit == {e \in s.cms.charWidthCache : e.ch = ch}
          IN IF hit # {}
             THEN [Log(s, Ev("widthHit")) EXCEPT
                     !.ret = (CHOOSE e \in hit : TRUE).width]
             ELSE Let(measureCharacterWidth(v, pos, in), LAMBDA w :
                    IF ch < 256
                    THEN [Log(s, Ev("measure")) EXCEPT
                            !.cms.charWidthCache =
                              @ \cup {[ch |-> ch, width |-> w, src |-> v]},
                            !.ret = w]
                    ELSE [Log(s, Ev("measure")) EXCEPT !.ret = w])

-----------------------------------------------------------------------------
(* DOMChangeDetectorService (the callback it invokes is the renderer's) *)

dcd_detach(s) ==
  [s EXCEPT !.dcd.isActive = FALSE, !.dcd.debounceTimeout = FALSE,
            !.dcd.observer = FALSE, !.dcd.editorView = NoView,
            !.dcd.changeCallback = FALSE, !.dcd.isProcessing = FALSE]

dcd_attach(s, editorView) ==
  [dcd_detach(s) EXCEPT !.dcd.editorView = editorView,
                        !.dcd.changeCallback = TRUE, !.dcd.isActive = TRUE,
                        !.dcd.observer = TRUE]

\* the same without the isProcessing guard
dcd_observed_reentrant(s) ==
  IF ~s.dcd.isActive THEN s
  ELSE [s EXCEPT !.dcd.debounceTimeout = TRUE]

\* the observer reports a structural or layout-affecting mutation
dcd_observed(s) ==
  IF ~s.dcd.isActive \/ s.dcd.isProcessing THEN s
  ELSE [s EXCEPT !.dcd.debounceTimeout = TRUE]

-----------------------------------------------------------------------------
(* CursorRenderer: position updates *)

clearAllCaches(s) == cms_clearCache(cs_clearCache(s))

checkFocusAndHideIfNeeded(s) ==
  Let(isFocused(s, FALSE), LAMBDA s1 :
    IF ~s1.ret THEN [cem_hide(s1) EXCEPT !.ret = FALSE]
    ELSE [s1 EXCEPT !.ret = TRUE])

head(s) == s.host.head[s.ren.editorView]

calculateCursorPosition(s, in) ==
  IF s.ren.editorView = NoView THEN [s EXCEPT !.ret = NoPosition]
  ELSE Let(getCursorCoordsCached(s, head(s), in), LAMBDA s1 :
       LET coords == s1.ret
       IN IF coords = NoCoords
          THEN [Log(s1, Ev("notFound")) EXCEPT !.ret = NoPosition]
          ELSE IF isNaN(coords.left) \/ isNaN(coords.top)
                  \/ ~isFinite(coords.left) \/ ~isFinite(coords.top)
          THEN [Log(s1, Ev("invalid")) EXCEPT !.ret = NoPosition]
          ELSE Let(measureCharacterWidthCached(s1, head(s), in), LAMBDA s2 :
                 [s2 EXCEPT !.ret = Position(coords.left, coords.top, s2.ret,
                                      getDefaultLineHeight(s.ren.editorView))]))

calculateTargetPosition(basePosition, shape) ==
  LET d == calculateCursorDimensions(basePosition, shape)
  IN Position(basePosition.x, basePosition.y, d.width, d.height)

updateCursorPositionWithContext(s, isTyping, in) ==
  IF s.ren.editorView = NoView \/ ~isElementConnected(s)
  THEN IF ~isElementConnected(s) THEN ensureHealth(s, TRUE) ELSE s
  ELSE Let(checkFocusAndHideIfNeeded(s), LAMBDA s1 :
       IF ~s1.ret THEN s1
       ELSE Let(calculateCursorPosition(s1, in), LAMBDA s2 :
            LET basePosition == s2.ret
            IN IF basePosition.nil THEN cem_hide(s2)
               ELSE Let(cem_show(s2), LAMBDA s3 :
                    Let(calculateTargetPosition(basePosition, elShape(s3)),
                        LAMBDA targetPosition :
                    LET yOffset == IF elShape(s3) = "underline"
                                   THEN FSub(basePosition.height,
                                             targetPosition.height)
                                   ELSE 0
                        wasHidden == \/ s3.cem.el.left <= HiddenLimit
                                     \/ s3.cem.el.top <= HiddenLimit
                                     \/ s3.cem.el.display = "none"
                    IN IF s3.ren.isScrolling
                       THEN eng_setImmediate(
                              cem_updatePosition(s3, targetPosition.x,
                                targetPosition.y, targetPosition.width,
                                targetPosition.height,
                                s3.settings.useTransformAnimation, yOffset),
                              targetPosition)
                       ELSE IF wasHidden
                       THEN applyCursorPosition(
                              eng_setImmediate(s3, targetPosition),
                              targetPosition)
                       ELSE animateTo(s3, targetPosition, isTyping)))))

updatePositionImmediate(s, in) ==
  IF s.ren.editorView = NoView THEN s
  ELSE Let(checkFocusAndHideIfNeeded(s), LAMBDA s1 :
       IF ~s1.ret THEN s1
       ELSE IF s1.cem.cursorEl = 0 THEN s1
       ELSE Let(calculateCursorPosition(s1, in), LAMBDA s2 :
            LET basePosition == s2.ret
            IN IF basePosition.nil THEN cem_hide(s2)
               ELSE Let(cem_show(s2), LAMBDA s3 :
                    Let(calculateTargetPosition(basePosition, elShape(s3)),
                        LAMBDA targetPosition :
                    LET lineHeight == getDefaultLineHeight(s3.ren.editorView)
                        yOffset == IF elShape(s3) = "underline"
                                   THEN FSub(lineHeight, targetPosition.height)
                                   ELSE 0
                    IN eng_setImmediate(
                         cem_updatePosition(s3, targetPosition.x,
                           targetPosition.y, targetPosition.width,
                           targetPosition.height,
                           s3.settings.useTransformAnimation, yOffset),
                         targetPosition)))))

\* requestAnimationFrame(() => ...updateCursorPosition()); hist.updateSess
\* remembers the session that asked for the frame
scheduleUpdate(s) ==
  IF s.ren.updateScheduled \/ s.ren.isDestroyed THEN s
  ELSE [s EXCEPT !.ren.updateScheduled = TRUE,
                 !.hist.updateSess = s.hist.session]

\* the frame scheduleUpdate asked for
updateFrame(s, in) ==
  LET s1 == [s EXCEPT !.ren.updateScheduled = FALSE]
  IN IF ~s1.ren.isDestroyed
     THEN updateCursorPositionWithContext(s1, s1.ren.isTyping, in)
     ELSE s1

\* updateCursorShape that sets the new tag before it seeds the engine
updateCursorShape_tagFirst(s, mode) ==
  IF s.cem.cursorEl = 0 THEN s
  ELSE LET shape == cursorShapes(mode)
           oldShape == elShape(s)
           currentPos == s.eng.currentPos
           displayedWidth == s.cem.el.width
           displayedHeight == s.cem.el.height
           old == calculateCursorDimensions(currentPos, oldShape)
           start == IF displayedWidth > 0 /\ displayedHeight > 0
                    THEN Position(currentPos.x, currentPos.y,
                                  displayedWidth, displayedHeight)
                    ELSE Position(currentPos.x, currentPos.y, old.width, old.height)
       IN Let(IF oldShape # shape /\ s.ren.editorView # NoView
              THEN scheduleUpdate(
                     eng_setImmediate(cem_updateShape(s, shape), start))
              ELSE cem_updateShape(s, shape),
              LAMBDA s1 :
          Let(cem_setBreathing(s1, s1.settings.enableBreathingAnimation),
              LAMBDA s2 :
            IF ~s2.ren.isCurrentlyMoving /\ s2.settings.enableBreathingAnimation
            THEN [s2 EXCEPT !.cem.el.moving = FALSE]
            ELSE s2))

updateCursorShape(s, mode) ==
  IF s.cem.cursorEl = 0 THEN s
  ELSE LET shape == cursorShapes(mode)
           oldShape == elShape(s)
           currentPos == s.eng.currentPos
           displayedWidth == s.cem.el.width
           displayedHeight == s.cem.el.height
           old == calculateCursorDimensions(currentPos, oldShape)
           start == IF displayedWidth > 0 /\ displayedHeight > 0
                    THEN Position(currentPos.x, currentPos.y,
                                  displayedWidth, displayedHeight)
                    ELSE Position(currentPos.x, currentPos.y, old.width, old.height)
       IN Let(IF oldShape # shape /\ s.ren.editorView # NoView
              THEN scheduleUpdate(
                     cem_updateShape(eng_setImmediate(s, start), shape))
              ELSE cem_updateShape(s, shape),
              LAMBDA s1 :
          Let(cem_setBreathing(s1, s1.settings.enableBreathingAnimation),
              LAMBDA s2 :
            IF ~s2.ren.isCurrentlyMoving /\ s2.settings.enableBreathingAnimation
            THEN [s2 EXCEPT !.cem.el.moving = FALSE]
            ELSE s2))

-----------------------------------------------------------------------------
(* CursorRenderer: signal handlers *)

\* the same with the typing window restarted by every update
handleEditorUpdateInternal_anyUpdate(s, docChanged, cursorPos, in) ==
  IF s.ren.editorView = NoView THEN s
  ELSE LET s1 == Log([s EXCEPT !.ren.isTyping = TRUE,
                               !.ren.lastUpdateWasTyping = docChanged,
                               !.ren.typingTimeout = TRUE],
                     Ev("typingArmed"))
       IN IF cursorPos # s1.ren.lastCursorPos
          THEN updateCursorPositionWithContext(
                 cs_clearCache([s1 EXCEPT !.ren.lastCursorPos = cursorPos]),
                 s1.ren.lastUpdateWasTyping, in)
          ELSE s1

handleEditorUpdateInternal(s, docChanged, cursorPos, in) ==
  IF s.ren.editorView = NoView THEN s
  ELSE LET s1 == IF docChanged
                 THEN Log([s EXCEPT !.ren.isTyping = TRUE,
                                    !.ren.lastUpdateWasTyping = TRUE,
                                    !.ren.typingTimeout = TRUE],
                          Ev("typingArmed"))
                 ELSE [s EXCEPT !.ren.lastUpdateWasTyping = FALSE]
       IN IF cursorPos # s1.ren.lastCursorPos
          THEN updateCursorPositionWithContext(
                 cs_clearCache([s1 EXCEPT !.ren.lastCursorPos = cursorPos]),
                 s1.ren.lastUpdateWasTyping, in)
          ELSE s1

handleEditorUpdate(s, docChanged, in) ==
  IF s.ren.editorView = NoView THEN s
  ELSE handleEditorUpdateInternal(s, docChanged, head(s), in)

handleCursorPositionChange(s, cursorPos) ==
  IF cursorPos # s.ren.lastCursorPos
  THEN scheduleUpdate(clearAllCaches([s EXCEPT !.ren.lastCursorPos = cursorPos]))
  ELSE s

\* the frame the dispatch wrapper asks for after the original dispatch
dispatchFrame(s, docChanged, in) ==
  IF s.ren.isAttached /\ s.ren.editorView # NoView
  THEN handleEditorUpdate(s, docChanged, in)
  ELSE s

\* the frame the click and keydown handlers ask for
recheckFrame(s) ==
  IF s.ren.editorView # NoView /\ s.ren.isAttached
  THEN handleCursorPositionChange(s, head(s))
  ELSE s

\* a scroll handler that leaves the running window as it is
scrollHandler_keepsWindow(s, throttled, in) ==
  LET s1 == [s EXCEPT !.ren.isScrolling = TRUE]
      s2 == IF throttled
            THEN Let(checkFocusAndHideIfNeeded(s1), LAMBDA s3 :
                   IF s3.ret THEN updatePositionImmediate(s3, in) ELSE s3)
            ELSE s1
  IN s2

\* throttled: now - lastScrollUpdateTime >= scrollThrottleInterval
scrollHandler(s, throttled, in) ==
  LET s1 == [s EXCEPT !.ren.isScrolling = TRUE, !.ren.scrollTimeout = FALSE]
      s2 == IF throttled
            THEN Let(checkFocusAndHideIfNeeded(s1), LAMBDA s3 :
                   IF s3.ret THEN updatePositionImmediate(s3, in) ELSE s3)
            ELSE s1
  IN [s2 EXCEPT !.ren.scrollTimeout = TRUE]

\* the timer the scroll handler arms, 150 ms later
scrollTimeoutFired(s) ==
  Let(checkFocusAndHideIfNeeded(
        [s EXCEPT !.ren.isScrolling = FALSE, !.ren.scrollTimeout = FALSE]),
      LAMBDA s1 : IF s1.ret THEN scheduleUpdate(s1) ELSE s1)

\* the timer handleEditorUpdateInternal arms, 150 ms later
typingTimeoutFired(s) ==
  [s EXCEPT !.ren.isTyping = FALSE, !.ren.typingTimeout = FALSE]

\* target: the surface that contains the event target (NoView: none)
focusHandler(s, target, in) ==
  IF s.ren.editorView = NoView \/ target # s.ren.editorView THEN s
  ELSE scheduleUpdate(
         updatePositionImmediate(
           forceHide(ensureHealth(setEditorActiveClass(s, TRUE), TRUE)), in))

blurHandler(s, sess, target) ==
  IF s.ren.editorView = NoView \/ target # s.ren.editorView THEN s
  ELSE [s EXCEPT !.cb.blurTimers = @ \cup {sess}]

\* the 10 ms timer of blurHandler
blurTimerFired(s) ==
  IF s.ren.editorView = NoView THEN s
  ELSE Let(isFocused(s, TRUE), LAMBDA s1 :
         IF ~s1.ret THEN cem_hide(s1) ELSE s1)

mousedownHandler(s, target) ==
  IF s.ren.editorView = NoView \/ target # s.ren.editorView THEN s
  ELSE ensureHealth(setEditorActiveClass(s, TRUE), TRUE)

\* click, or keydown with a navigation key, inside the editor
recheckHandler(s, sess) ==
  IF s.ren.editorView = NoView \/ ~s.ren.isAttached THEN s
  ELSE [s EXCEPT !.cb.recheckFrames = @ \cup {sess}]

\* the callback setupDOMChangeDetector hands to the detector
domChangeCallback(s, in) ==
  IF ~s.ren.isAttached \/ s.ren.editorView = NoView THEN s
  ELSE Let(checkFocusAndHideIfNeeded(s), LAMBDA s1 :
         IF ~s1.ret THEN s1
         ELSE updatePositionImmediate(
                [clearAllCaches(s1) EXCEPT !.ren.lastCursorPos = 0 - 1], in))

\* the detector's debounce timer, 250 ms after the last mutation
dcd_debounceFired(s, in) ==
  LET s1 == [s EXCEPT !.dcd.debounceTimeout = FALSE]
  IN IF ~s1.dcd.isActive \/ ~s1.dcd.changeCallback THEN s1
     ELSE [domChangeCallback(
             Log([s1 EXCEPT !.dcd.isProcessing = TRUE], Ev("changeCallback")),
             in)
             EXCEPT !.cb.dcdFrames = @ \cup {s.hist.session}]

\* the frame the debounce callback asks for
dcd_frame(s) == [s EXCEPT !.dcd.isProcessing = FALSE]

-----------------------------------------------------------------------------
(* CursorRenderer: attach, detach, destroy.  host.dispatch[v] is 0 while   *)
(* v.dispatch is the host's own function and k while it is the wrapper     *)
(* session k installed; host.saved[v] is what v.__originalDispatch holds   *)
(* (-1: the property is absent).                                           *)

hasOriginalDispatch(s, v) == s.host.saved[v] # 0 - 1

setupTransactionListener(s) ==
  LET v == s.ren.editorView
  IN IF v = NoView THEN s
     ELSE LET s1 == IF ~hasOriginalDispatch(s, v)
                    THEN [s EXCEPT !.host.saved[v] = s.host.dispatch[v]]
                    ELSE s
          IN Log([s1 EXCEPT !.host.dispatch[v] = s.hist.session],
                 Ev("wrapDispatch"))

\* the wrapper, after it has called the original dispatch
dispatchWrapper(s, sess, docChanged) ==
  IF s.ren.isAttached /\ s.ren.editorView # NoView
  THEN [s EXCEPT !.cb.dispatchFrames =
                   @ \cup {[sess |-> sess, docChanged |-> docChanged]}]
  ELSE s

setupScrollListener(s) ==
  IF s.ren.editorView = NoView THEN s
  ELSE addEventListener(s, s.ren.editorView, "scroll")

setupFocusListener(s) ==
  IF s.ren.editorView = NoView THEN s
  ELSE addEventListener(
         addEventListener(
           addEventListener(s, "document", "mousedown"),
           "document", "focusin"),
         "document", "focusout")

setupMouseKeyboardListeners(s) ==
  IF s.ren.editorView = NoView THEN s
  ELSE addEventListener(addEventListener(s, s.ren.editorView, "click"),
                        s.ren.editorView, "keydown")

setupDOMChangeDetector(s) ==
  IF s.ren.editorView = NoView THEN s
  ELSE dcd_attach(s, s.ren.editorView)

detach(s) ==
  LET v == s.ren.editorView
      s1 == IF v # NoView /\ hasOriginalDispatch(s, v)
            THEN [s EXCEPT !.host.dispatch[v] = s.host.saved[v],
                           !.host.saved[v] = 0 - 1]
            ELSE s
      s2 == removeAll(s1)
      s3 == [s2 EXCEPT !.ren.scrollTimeout = FALSE,
                       !.ren.typingTimeout = FALSE,
                       !.ren.movementResumeTimeout = FALSE]
      s4 == IF s3.cem.cursorEl # 0
            THEN [s3 EXCEPT !.cem.el.moving = FALSE] ELSE s3
      s5 == cem_hide([s4 EXCEPT !.ren.isCurrentlyMoving = FALSE])
      s6 == nch_detach(esm_detach(dcd_detach(cms_detach(cs_detach(s5)))))
  IN Log([s6 EXCEPT !.ren.editorView = NoView, !.ren.isAttached = FALSE,
                    !.ren.lastCursorPos = 0 - 1, !.ren.isScrolling = FALSE,
                    !.ren.isTyping = FALSE, !.ren.lastUpdateWasTyping = FALSE],
         Ev("detach"))

destroy(s) ==
  cem_remove(
    detach([s EXCEPT !.ren.isDestroyed = TRUE, !.ren.modeSubscribed = FALSE,
                     !.ren.typingTimeout = FALSE,
                     !.ren.movementResumeTimeout = FALSE]))

\* what attach does once it has decided to (re)establish the session;
\* hist.session counts these
attach_establish(s, editorView, mode, in) ==
  LET s1 == [detach(s) EXCEPT !.ren.editorView = editorView,
                              !.hist.session = @ + 1,
                              !.hist.surface = Append(@, editorView)]
      s2 == nch_attach(esm_attach(cms_attach(cs_attach(s1, editorView),
                                             editorView), editorView),
                       editorView)
      s3 == setupDOMChangeDetector(
              setupMouseKeyboardListeners(
                setupFocusListener(
                  setupScrollListener(
                    setupTransactionListener(cem_create(s2))))))
      s4 == ensureHealth([s3 EXCEPT !.ren.isAttached = TRUE], TRUE)
  IN Let(updateCursorShape(s4, mode), LAMBDA s5 :
       IF s5.ren.editorView # NoView
       THEN scheduleUpdate(updatePositionImmediate(s5, in))
       ELSE s5)

\* attach without the early return
attach_always(s, editorView, mode, in) ==
  attach_establish(s, editorView, mode, in)

attach(s, editorView, mode, in) ==
  IF /\ s.ren.editorView = editorView
     /\ s.ren.isAttached
     /\ isElementConnected(s)
  THEN s
  ELSE attach_establish(s, editorView, mode, in)

-----------------------------------------------------------------------------
(* The host's answers to one resolution: coordsAtPos(pos, 1),              *)
(* coordsAtPos(pos, -1), the native caret's rectangle and                  *)
(* coordsAtPos(pos + 1, -1).                                               *)

CharLeft(pos) == Px(10 + 8 * pos)
LineTop == Px(20)

HostAnswer(kind, v, pos) ==
  LET here == Coords(CharLeft(pos), LineTop, v)
      next == Coords(CharLeft(pos + 1), LineTop, v)
  IN CASE kind = "ok" ->
            [s1 |-> here, s2 |-> here, caret |-> NoCaret, endc |-> next]
       [] kind = "before" ->
            [s1 |-> NoCoords, s2 |-> here, caret |-> NoCaret, endc |-> next]
       [] kind = "caret" ->
            [s1 |-> NoCoords, s2 |-> NoCoords,
             caret |-> Caret(CharLeft(pos), LineTop, Px(1), Px(20)),
             endc |-> NoCoords]
       [] kind = "none" ->
            [s1 |-> NoCoords, s2 |-> NoCoords, caret |-> NoCaret,
             endc |-> NoCoords]
       [] kind = "nanLeft" ->
            [s1 |-> Coords(NaN, LineTop, v), s2 |-> here, caret |-> NoCaret,
             endc |-> next]
       [] kind = "infTop" ->
            [s1 |-> Coords(CharLeft(pos), PosInf, v), s2 |-> here,
             caret |-> NoCaret, endc |-> next]
       [] OTHER -> \* "infEnd"
            [s1 |-> here, s2 |-> here, caret |-> NoCaret,
             endc |-> Coords(PosInf, LineTop, v)]

\* the answers the host gives in this run, for the surface attached to
AnswersFor(s, v) ==
  IF v = NoView THEN {HostAnswer("none", NoView, 0)}
  ELSE {HostAnswer(k, v, s.host.head[v]) : k \in s.hist.answers}

Answers(s) == AnswersFor(s, s.ren.editorView)

-----------------------------------------------------------------------------
(* State after construction *)

\* the field initialisers of AnimationEngine
EngineFields ==
  [currentPos |-> Position(0, 0, 0, 0), targetPos |-> Position(0, 0, 0, 0),
   rafId |-> FALSE, isAnimating |-> FALSE, isStopped |-> FALSE,
   isCurrentlyTyping |-> FALSE,
   cachedAnimationDuration |-> 100, cachedLerpFactor |-> <<16, 100>>,
   cachedTypingAnimationDuration |-> 50, cachedTypingLerpFactor |-> <<35, 100>>,
   movementStateTimeout |-> FALSE, isMovementActive |-> FALSE]

\* the sliders' lower limit for both durations
Settings ==
  [enableAnimation |-> TRUE, animationDuration |-> 20,
   enableInsertModeAnimation |-> TRUE, insertModeAnimationDuration |-> 20,
   useTransformAnimation |-> FALSE, enableBreathingAnimation |-> FALSE]

State0(answers, views) ==
  [ren |-> [editorView |-> NoView, isAttached |-> FALSE,
            updateScheduled |-> FALSE, lastCursorPos |-> 0 - 1,
            modeSubscribed |-> TRUE, isDestroyed |-> FALSE,
            isScrolling |-> FALSE, scrollTimeout |-> FALSE,
            isTyping |-> FALSE, typingTimeout |-> FALSE,
            lastUpdateWasTyping |-> FALSE,
            movementResumeTimeout |-> FALSE, isCurrentlyMoving |-> FALSE],
   cem |-> [cursorEl |-> 0, el |-> NewElement],
   doc |-> {},
   esm |-> [editorView |-> NoView, cachedIsFocused |-> FALSE,
            cachedEditorHasActiveClass |-> FALSE],
   em |-> {},
   nch |-> [editorView |-> NoView, isActive |-> FALSE, observer |-> FALSE,
            periodicCheckInterval |-> FALSE, raf |-> FALSE],
   cs |-> [editorView |-> NoView, lastSuccessfulCoords |-> NoCoords,
           coordsCache |-> <<>>],
   cms |-> [editorView |-> NoView, charWidthCache |-> {}],
   dcd |-> [editorView |-> NoView, observer |-> FALSE, isActive |-> FALSE,
            changeCallback |-> FALSE, debounceTimeout |-> FALSE,
            isProcessing |-> FALSE],
   eng |-> EngineFields,
   host |-> [head |-> [v \in Views |-> 0], focused |-> NoView, mode |-> "normal",
             marker |-> {}, overrides |-> {}, contentBare |-> {},
             domListeners |-> {},
             dispatch |-> [v \in Views |-> 0],
             saved |-> [v \in Views |-> 0 - 1]],
   cb |-> [dispatchFrames |-> {}, recheckFrames |-> {}, blurTimers |-> {},
           dcdFrames |-> {}, engineFrames |-> 0,
           movementTimers |-> 0],
   tm |-> [focusFresh |-> FALSE, healthFresh |-> FALSE],
   settings |-> Settings,
   hist |-> [session |-> 0, nextEl |-> 1, lastOp |-> "init", lastArg |-> NoView,
             lastSess |-> 0, updateSess |-> 0, events |-> 0,
             surface |-> <<>>, removedByHost |-> FALSE, notFound |-> FALSE,
             signal |-> FALSE, emitted |-> <<>>, profile |-> FALSE,
             typedMove |-> FALSE,
             answers |-> answers,
             views |-> views],
   log |-> {},
   ret |-> FALSE]

\* new AnimationEngine(plugin), then new CursorRenderer(plugin, engine)
Constructed(answers, views) == updateLerpFactor(State0(answers, views))

\* the program state as one record; the step log and the list of
\* positions the engine emitted through its frame callback start empty
S == [ren |-> ren, cem |-> cem, doc |-> doc, esm |-> esm, em |-> em,
      nch |-> nch, cs |-> cs, cms |-> cms, dcd |-> dcd, eng |-> eng,
      host |-> host, cb |-> cb, tm |-> tm, settings |-> settings,
      hist |-> [hist EXCEPT !.emitted = <<>>], log |-> {}, ret |-> FALSE]

Is(n) ==
  /\ ren = n.ren /\ cem = n.cem /\ doc = n.doc /\ esm = n.esm /\ em = n.em
  /\ nch = n.nch /\ cs = n.cs /\ cms = n.cms /\ dcd = n.dcd /\ eng = n.eng
  /\ host = n.host /\ cb = n.cb /\ tm = n.tm /\ settings = n.settings
  /\ hist = n.hist /\ log = n.log

Resolved(n) ==
  n.log \cap {Ev("notFound"), Ev("resolve"), Ev("cacheHit"), Ev("detach")} # {}

\* the step ran operation op (argument arg, on behalf of session sess)
\* and left the program in n.  hist.notFound: the last resolution of the
\* session reported NotFound; hist.signal: since then a dispatch, click or
\* navigation key arrived whose frame is the only one pending;
\* hist.profile: the isTyping argument of the animateTo call that started
\* the engine's frame loop; hist.typedMove: the transaction that last
\* moved the attached surface's caret changed the document
Commit(op, arg, sess, n) ==
  /\ ren' = n.ren /\ cem' = n.cem /\ doc' = n.doc /\ esm' = n.esm
  /\ em' = n.em /\ nch' = n.nch /\ cs' = n.cs /\ cms' = n.cms
  /\ dcd' = n.dcd /\ eng' = n.eng /\ host' = n.host /\ cb' = n.cb
  /\ tm' = n.tm /\ settings' = n.settings /\ log' = n.log
  /\ hist' = [n.hist EXCEPT
                !.lastOp = op, !.lastArg = arg, !.lastSess = sess,
                !.notFound = IF Ev("notFound") \in n.log THEN TRUE
                             ELSE IF Resolved(n) THEN FALSE ELSE @,
                !.signal = IF Resolved(n) THEN FALSE
                           ELSE IF /\ op \in {"dispatch", "click", "keydown"}
                                   /\ hist.notFound
                                   /\ cb.dispatchFrames = {}
                                   /\ cb.recheckFrames = {}
                                   /\ n.cb # cb
                           THEN TRUE ELSE @,
                !.profile = IF op = "animateTo" /\ ~eng.isAnimating
                               /\ n.eng.isAnimating
                            THEN arg.isTyping ELSE @]
  /\ UNCHANGED <<rIn, rOut>>

\* the same for a plugin call or a host event, which MaxEvents counts
Event(op, arg, sess, n) ==
  /\ hist.events < MaxEvents
  /\ Commit(op, arg, sess, [n EXCEPT !.hist.events = @ + 1])

NoInput == [in |-> HostAnswer("none", NoView, 0), last |-> NoCoords,
            called |-> FALSE, good |-> NoCoords]

Init ==
  /\ Is(Constructed({"ok", "none"}, Views))
  /\ rIn = NoInput
  /\ rOut = NoCoords

-----------------------------------------------------------------------------
(* Actions: the plugin's calls *)

\* main.ts onActiveLeafChange with a markdown leaf
Attach ==
  \E v \in hist.views : \E in \in AnswersFor(S, v) :
    \E n \in {attach(S, v, host.mode, in)} :
      /\ ~ren.isDestroyed
      /\ n.hist.session <= MaxSession
      /\ Event("attach", v, hist.session, n)

\* main.ts onActiveLeafChange without one
Detach ==
  /\ ~ren.isDestroyed
  /\ Event("detach", NoView, hist.session, detach(S))

\* main.ts onunload: destroy(), then the engine's stop()
onunload(s) == eng_stop(destroy(s))

Destroy ==
  /\ ~ren.isDestroyed
  /\ Event("destroy", NoView, hist.session, onunload(S))

\* vimState reports a mode change to its subscribers
ModeChange ==
  \E m \in Modes :
    /\ m # host.mode
    /\ LET s0 == [S EXCEPT !.host.mode = m]
       IN Event("modeChange", NoView, hist.session,
                 IF ren.modeSubscribed THEN updateCursorShape(s0, m) ELSE s0)

-----------------------------------------------------------------------------
(* Actions: host events *)

\* view.dispatch(tr): the host moves the selection, then the wrapper runs
HostDispatch ==
  \E v \in hist.views : \E p \in Pos : \E docChanged \in BOOLEAN :
    LET s0 == [S EXCEPT !.host.head[v] = p,
                        !.cs.coordsCache =
                          IF docChanged /\ v = cs.editorView
                          THEN Outdated(@) ELSE @,
                        !.hist.typedMove =
                          IF v = ren.editorView /\ p # host.head[v]
                          THEN docChanged ELSE @]
    IN Event("dispatch", v, host.dispatch[v],
              IF host.dispatch[v] # 0
              THEN dispatchWrapper(s0, host.dispatch[v], docChanged)
              ELSE s0)

Click ==
  \E l \in host.domListeners :
    /\ l.event = "click"
    /\ Event("click", l.target, l.sess, recheckHandler(S, l.sess))

\* keydown with a navigation key
KeyDown ==
  \E l \in host.domListeners :
    /\ l.event = "keydown"
    /\ Event("keydown", l.target, l.sess, recheckHandler(S, l.sess))

Scroll ==
  \E l \in host.domListeners : \E throttled \in BOOLEAN : \E in \in Answers(S) :
    /\ l.event = "scroll"
    /\ Event("scroll", l.target, l.sess, scrollHandler(S, throttled, in))

\* the sessions whose listener for event ev is still registered (0: none)
Listening(ev) ==
  IF \E l \in host.domListeners : l.event = ev
  THEN {l.sess : l \in {x \in host.domListeners : x.event = ev}}
  ELSE {0}

\* focus enters surface v
FocusIn ==
  \E v \in hist.views : \E in \in Answers(S) : \E k \in Listening("focusin") :
    /\ host.focused = NoView
    /\ LET s0 == [S EXCEPT !.host.focused = v]
       IN Event("focusin", v, k,
                 IF k # 0 THEN focusHandler(s0, v, in) ELSE s0)

\* focus leaves the surface that had it
FocusOut ==
  \E k \in Listening("focusout") :
    /\ host.focused # NoView
    /\ LET s0 == [S EXCEPT !.host.focused = NoView]
       IN Event("focusout", host.focused, k,
                 IF k # 0 THEN blurHandler(s0, k, host.focused) ELSE s0)

MouseDown ==
  \E v \in hist.views : \E l \in host.domListeners :
    /\ l.event = "mousedown"
    /\ Event("mousedown", v, l.sess, mousedownHandler(S, v))

\* a structural mutation inside the observed content
DomMutation ==
  /\ dcd.observer
  /\ Event("domMutation", NoView, hist.session,
            dcd_observed(S))

\* the host re-creates the caret elements of surface v
CaretRecreated ==
  \E v \in host.overrides :
    LET s0 == [S EXCEPT !.host.overrides = @ \ {v}]
    IN Event("caretRecreated", v, hist.session,
              IF nch.observer /\ nch.editorView = v THEN nch_observed(s0)
              ELSE s0)

\* the host rewrites the style attribute of surface v's content node, which
\* drops the inline caret-color; the detector receives the record
ContentRestyled ==
  \E v \in host.overrides :
    LET s0 == [S EXCEPT !.host.overrides = @ \ {v},
                        !.host.contentBare = @ \cup {v}]
    IN Event("contentRestyled", v, hist.session,
              IF dcd.observer /\ dcd.editorView = v
              THEN dcd_attributeRecords(s0, {"content"})
              ELSE s0)

\* something else removes the overlay element from the document
RemoveOverlay ==
  /\ cem.cursorEl \in doc
  /\ Event("removeOverlay", NoView, hist.session,
            [S EXCEPT !.doc = @ \ {cem.cursorEl},
                      !.hist.removedByHost = TRUE])

\* something else strips the marker class from surface v
StripMarker ==
  \E v \in host.marker :
    Event("stripMarker", v, hist.session, [S EXCEPT !.host.marker = @ \ {v}])

\* enough time passes for every throttle window and cache entry to expire
TimePasses ==
  LET aged == [i \in 1..Len(cs.coordsCache) |->
                 [cs.coordsCache[i] EXCEPT !.fresh = FALSE]]
  IN /\ tm.focusFresh \/ tm.healthFresh \/ aged # cs.coordsCache
     /\ Event("timePasses", NoView, hist.session,
               [S EXCEPT !.tm.focusFresh = FALSE, !.tm.healthFresh = FALSE,
                         !.cs.coordsCache = aged])

-----------------------------------------------------------------------------
(* Actions: animation frames and timers *)

DispatchFrame ==
  \E c \in cb.dispatchFrames : \E in \in Answers(S) :
    Commit("dispatchFrame", ren.editorView, c.sess,
           dispatchFrame([S EXCEPT !.cb.dispatchFrames = @ \ {c}],
                         c.docChanged, in))

RecheckFrame ==
  \E k \in cb.recheckFrames :
    Commit("recheckFrame", ren.editorView, k,
           recheckFrame([S EXCEPT !.cb.recheckFrames = @ \ {k}]))

BlurTimer ==
  \E k \in cb.blurTimers :
    Commit("blurTimer", ren.editorView, k,
           blurTimerFired([S EXCEPT !.cb.blurTimers = @ \ {k}]))

UpdateFrame ==
  \E in \in Answers(S) :
    /\ ren.updateScheduled
    /\ Commit("updateFrame", ren.editorView, hist.updateSess,
              updateFrame(S, in))

ScrollTimeout ==
  /\ ren.scrollTimeout
  /\ Commit("scrollTimeout", ren.editorView, hist.session,
            scrollTimeoutFired(S))

TypingTimeout ==
  /\ ren.typingTimeout
  /\ Commit("typingTimeout", ren.editorView, hist.session,
            typingTimeoutFired(S))

MovementResume ==
  /\ ren.movementResumeTimeout
  /\ Commit("movementResume", ren.editorView, hist.session,
            movementResumeFired(S))

EngineFrame ==
  /\ cb.engineFrames > 0
  /\ \E n \in {animate([S EXCEPT !.cb.engineFrames = @ - 1])} :
       Commit("engineFrame", ren.editorView, hist.session, n)

EngineMovementTimer ==
  /\ cb.movementTimers > 0
  /\ Commit("engineMovementTimer", ren.editorView, hist.session,
            movementStoppedFired([S EXCEPT !.cb.movementTimers = @ - 1]))

DcdDebounce ==
  \E in \in Answers(S) :
    /\ dcd.debounceTimeout
    /\ Commit("dcdDebounce", ren.editorView, hist.session,
              dcd_debounceFired(S, in))

DcdFrame ==
  \E k \in cb.dcdFrames :
    Commit("dcdFrame", ren.editorView, k,
           dcd_frame([S EXCEPT !.cb.dcdFrames = @ \ {k}]))

NchFrame ==
  /\ nch.raf
  /\ Commit("nchFrame", ren.editorView, hist.session, nch_frame(S))

NchInterval ==
  /\ nch.periodicCheckInterval
  /\ Commit("nchInterval", ren.editorView, hist.session, nch_interval(S))

-----------------------------------------------------------------------------
Next ==
  \/ Attach \/ Detach \/ Destroy \/ ModeChange
  \/ HostDispatch \/ Click \/ KeyDown \/ Scroll \/ FocusIn \/ FocusOut
  \/ MouseDown \/ DomMutation \/ CaretRecreated \/ RemoveOverlay
  \/ StripMarker \/ TimePasses
  \/ DispatchFrame \/ RecheckFrame \/ BlurTimer \/ UpdateFrame
  \/ ScrollTimeout \/ TypingTimeout \/ MovementResume
  \/ EngineFrame \/ EngineMovementTimer
  \/ DcdDebounce \/ DcdFrame \/ NchFrame \/ NchInterval

Spec == Init /\ [][Next]_vars

-----------------------------------------------------------------------------
(* The same program on a host whose coordinate answers can be NaN or       *)
(* infinite                                                                 *)

InitNumeric ==
  /\ Is(Constructed({"ok", "nanLeft", "infTop", "infEnd"}, {"A"}))
  /\ rIn = NoInput
  /\ rOut = NoCoords

SpecNumeric == InitNumeric /\ [][Next]_vars

-----------------------------------------------------------------------------
(* The coordinate service on its own: every combination of answers of the  *)
(* three host strategies, over the calls of one or more sessions.  rIn     *)
(* records the answers of the last call (in), whether it ran the chain     *)
(* (called) and, independently of the service's own fields, the last       *)
(* coordinate a resolution of the session had produced before the call     *)
(* (last) and after it (good); rOut is what the call returned.             *)

ResolveS1 == {NoCoords, Coords(Px(10), Px(20), "A")}
ResolveS2 == {NoCoords, Coords(Px(11), Px(20), "A")}
ResolveCaret == {NoCaret, Caret(Px(12), Px(20), 0, 0),
                 Caret(Px(12), Px(20), 0, Px(20)),
                 Caret(Px(12), Px(21), Px(1), 0)}

ResolveInputs ==
  {[s1 |-> a, s2 |-> b, caret |-> c, endc |-> NoCoords] :
     a \in ResolveS1, b \in ResolveS2, c \in ResolveCaret}

CommitResolve(n, in, out) ==
  /\ ren' = n.ren /\ cem' = n.cem /\ doc' = n.doc /\ esm' = n.esm
  /\ em' = n.em /\ nch' = n.nch /\ cs' = n.cs /\ cms' = n.cms
  /\ dcd' = n.dcd /\ eng' = n.eng /\ host' = n.host /\ cb' = n.cb
  /\ tm' = n.tm /\ settings' = n.settings /\ log' = n.log /\ hist' = n.hist
  /\ rIn' = in
  /\ rOut' = out

\* the state after attach("A") on a surface that has no focus
InitResolve ==
  /\ Is(attach(Constructed({"none"}, {"A"}), "A", "normal",
               HostAnswer("none", "A", 0)))
  /\ rIn = NoInput
  /\ rOut = NoCoords

\* coordinateService.getCursorCoordsCached(pos) with the host answering in
ResolveCall ==
  \E pos \in Pos : \E in \in ResolveInputs :
    \E n \in {getCursorCoordsCached(S, pos, in)} :
    LET called == Ev("resolve") \in n.log
    IN CommitResolve(n,
         [in |-> in, last |-> rIn.good, called |-> called,
          good |-> IF called /\ n.ret # NoCoords THEN n.ret ELSE rIn.good],
         n.ret)

ResolveClearCache ==
  /\ cs.coordsCache # <<>>
  /\ CommitResolve(cs_clearCache(S), [rIn EXCEPT !.called = FALSE], rOut)

\* the cached entries grow older than coordsCacheMaxAge
ResolveExpire ==
  LET aged == [i \in 1..Len(cs.coordsCache) |->
                 [cs.coordsCache[i] EXCEPT !.fresh = FALSE]]
  IN /\ aged # cs.coordsCache
     /\ CommitResolve([S EXCEPT !.cs.coordsCache = aged],
                      [rIn EXCEPT !.called = FALSE], rOut)

\* detach() and attach() of the service: a new session
ResolveReattach ==
  /\ cs.lastSuccessfulCoords # NoCoords
  /\ CommitResolve(cs_attach(cs_detach(S), "A"), NoInput, NoCoords)

NextResolve ==
  \/ ResolveCall \/ ResolveClearCache \/ ResolveExpire \/ ResolveReattach

SpecResolve == InitResolve /\ [][NextResolve]_vars

-----------------------------------------------------------------------------
(* The measurement service and the dimension function on their own.  The   *)
(* service is attached to a surface whose document is one character; rIn   *)
(* records the call (fn), its arguments and whether the width came from    *)
(* the cache (hit); rOut is what the call returned.                        *)

InitMeasure ==
  \E v \in {"A", "B", "G", "S", "K", "X", "H", "F", "E"} :
    /\ Is(cms_attach(Constructed({"none"}, {"A"}), v))
    /\ rIn = [fn |-> "attach"]
    /\ rOut = 0

\* measureCharacterWidthCached(0): coordsAtPos(0, 1) and coordsAtPos(1, -1)
\* answer nothing, or rectangles 9 px apart, at the same place or reversed
MeasureCall ==
  \E a \in {NoCoords, Coords(Px(10), LineTop, cms.editorView)} :
    \E b \in {NoCoords} \cup
             {Coords(Px(l), LineTop, cms.editorView) : l \in {1, 10, 19}} :
      LET in == [s1 |-> a, s2 |-> NoCoords, caret |-> NoCaret, endc |-> b]
      IN \E n \in {measureCharacterWidthCached(S, 0, in)} :
           CommitResolve(n, [fn |-> "measure", in |-> in,
                             hit |-> Ev("widthHit") \in n.log], n.ret)

MeasureClearCache ==
  /\ cms.charWidthCache # {}
  /\ CommitResolve(cms_clearCache(S), [fn |-> "clearCache"], rOut)

\* calculateCursorDimensions(pos, shape), shape also outside CursorShape
DimensionsCall ==
  \E x \in {0, 10} : \E y \in {20} : \E w \in {0, 1, 8} :
    \E h \in {1, 2, 18} : \E shape \in {"block", "line", "underline", "bar"} :
      LET pos == Position(Px(x), Px(y), Px(w), Px(h))
      IN CommitResolve(S, [fn |-> "dimensions", pos |-> pos, shape |-> shape],
                       calculateCursorDimensions(pos, shape))

NextMeasure == MeasureCall \/ MeasureClearCache \/ DimensionsCall

SpecMeasure == InitMeasure /\ [][NextMeasure]_vars

-----------------------------------------------------------------------------
(* The animation engine on its own: constructed under each configuration   *)
(* of the two durations and the two switches, then driven by animateTo,   *)
(* setImmediate and stop between its frames and timers.                    *)

InitEngine ==
  \E d \in {20, 100} : \E td \in {20, 50} : \E on, typingOn \in BOOLEAN :
    /\ Is(updateLerpFactor(
            [State0({"none"}, {"A"}) EXCEPT
               !.settings.animationDuration = d,
               !.settings.insertModeAnimationDuration = td,
               !.settings.enableAnimation = on,
               !.settings.enableInsertModeAnimation = typingOn]))
    /\ rIn = NoInput
    /\ rOut = NoCoords

\* a caret cell, the same cell 0.3 px to the right, and a line cursor in
\* the cell before it
EnginePositions ==
  {Position(Px(10), Px(20), Px(8), Px(18)),
   Position(Px(10) + 30, Px(20), Px(8), Px(18)),
   Position(Px(2), Px(20), Px(2), Px(18))}

EngAnimateTo ==
  \E target \in EnginePositions : \E isTyping \in BOOLEAN :
    /\ hist.events < MaxCalls
    /\ Commit("animateTo", [target |-> target, isTyping |-> isTyping],
              hist.session,
              animateTo([S EXCEPT !.hist.events = @ + 1], target, isTyping))

EngSetImmediate ==
  \E position \in EnginePositions :
    /\ hist.events < MaxCalls
    /\ Commit("setImmediate", position, hist.session,
              eng_setImmediate([S EXCEPT !.hist.events = @ + 1], position))

EngStop ==
  /\ hist.events < MaxCalls
  /\ Commit("stop", NoView, hist.session,
            eng_stop([S EXCEPT !.hist.events = @ + 1]))

NextEngine ==
  \/ EngAnimateTo \/ EngSetImmediate \/ EngStop
  \/ EngineFrame \/ EngineMovementTimer \/ MovementResume

SpecEngine == InitEngine /\ [][NextEngine]_vars

\* the browser runs a requested animation frame
SpecEngineFair == SpecEngine /\ WF_vars(EngineFrame)

\* the browser also fires every armed timer
SpecEngineServed ==
  /\ SpecEngine
  /\ WF_vars(EngineFrame) /\ WF_vars(EngineMovementTimer)
  /\ WF_vars(MovementResume)

-----------------------------------------------------------------------------
(* The coordinate cache on its own, over one position more than it can     *)
(* hold.  rIn records, independently of the Map, the positions held in the *)
(* order of their resolution timestamps (order, oldest first), the         *)
(* positions the last call dropped (evicted), the position that had the    *)
(* smallest timestamp when it dropped them (oldest); rOut is what the call *)
(* returned.                                                               *)

InitCache ==
  /\ Is(cs_attach(Constructed({"ok"}, {"A"}), "A"))
  /\ rIn = [order |-> <<>>, evicted |-> {}, oldest |-> 0]
  /\ rOut = NoCoords

Held(cache) == {cache[i].pos : i \in 1..Len(cache)}

\* the sequence without its elements outside keep
Restrict(seq, keep) == SelectSeq(seq, LAMBDA p : p \in keep)

\* positions the caret comes back to
Revisited == {0, 1}

\* what the host answers: the resolution is let fail only while the
\* service has no last successful coordinates to fall back on
CacheAnswers ==
  IF cs.lastSuccessfulCoords = NoCoords THEN {"ok", "none"} ELSE {"ok"}

\* getCursorCoordsCached(pos); the caret visits a new position only next
\* to the ones it has visited
CacheCall ==
  \E pos \in Revisited \cup {Len(rIn.order)} : \E kind \in CacheAnswers :
    \E n \in {getCursorCoordsCached(S, pos, HostAnswer(kind, "A", pos))} :
      LET stamped == Ev("resolve") \in n.log /\ n.ret # NoCoords
          order == IF stamped
                   THEN Append(Restrict(rIn.order, Held(cs.coordsCache) \ {pos}),
                               pos)
                   ELSE rIn.order
          evicted == (Held(cs.coordsCache) \cup {pos}) \ Held(n.cs.coordsCache)
      IN /\ pos <= coordsCacheMaxSize
         /\ CommitResolve(n,
              [order |-> Restrict(order, Held(n.cs.coordsCache)),
               evicted |-> IF stamped THEN evicted ELSE {},
               oldest |-> IF order = <<>> THEN 0 ELSE order[1]],
              n.ret)

\* the cached entries grow older than coordsCacheMaxAge
CacheExpire ==
  LET aged == [i \in 1..Len(cs.coordsCache) |->
                 [cs.coordsCache[i] EXCEPT !.fresh = FALSE]]
  IN /\ aged # cs.coordsCache
     /\ CommitResolve([S EXCEPT !.cs.coordsCache = aged],
                      [rIn EXCEPT !.evicted = {}], rOut)

CacheClear ==
  /\ cs.coordsCache # <<>>
  /\ CommitResolve(cs_clearCache(S),
                   [rIn EXCEPT !.order = <<>>, !.evicted = {}], rOut)

NextCache == CacheCall \/ CacheExpire \/ CacheClear

SpecCache == InitCache /\ [][NextCache]_vars

-----------------------------------------------------------------------------
(* One attached session on surface "A", left to the host's events and to   *)
(* the frames and timers the session scheduled: nothing calls attach,      *)
(* detach or destroy.                                                      *)

InitHealth ==
  /\ Is(attach(Constructed({"ok"}, {"A"}), "A", "normal",
               HostAnswer("ok", "A", 0)))
  /\ rIn = NoInput
  /\ rOut = NoCoords

NextHealth ==
  \/ StripMarker \/ RemoveOverlay \/ TimePasses
  \/ MouseDown \/ FocusIn \/ FocusOut
  \/ BlurTimer \/ UpdateFrame \/ MovementResume
  \/ EngineFrame \/ EngineMovementTimer
  \/ NchInterval

SpecHealth == InitHealth /\ [][NextHealth]_vars

\* the browser runs every requested frame and every armed timer, the
\* 100 ms interval of the native-caret suppressor among them; the host's
\* and the user's events are not owed
SpecHealthFair ==
  /\ SpecHealth
  /\ WF_vars(BlurTimer) /\ WF_vars(UpdateFrame) /\ WF_vars(MovementResume)
  /\ WF_vars(EngineFrame) /\ WF_vars(EngineMovementTimer)
  /\ WF_vars(NchInterval)

-----------------------------------------------------------------------------
(* One attached session on the focused surface "A" while the caret moves   *)
(* and the surface scrolls: nothing calls attach, detach or destroy and    *)
(* the focus stays.                                                         *)

InitMoves ==
  /\ Is(attach([Constructed({"ok"}, {"A"}) EXCEPT !.host.focused = "A"],
               "A", "normal", HostAnswer("ok", "A", 0)))
  /\ rIn = NoInput
  /\ rOut = NoCoords

NextMoves ==
  \/ HostDispatch \/ Scroll \/ TimePasses
  \/ DispatchFrame \/ UpdateFrame \/ ScrollTimeout \/ TypingTimeout
  \/ EngineFrame \/ EngineMovementTimer \/ MovementResume

SpecMoves == InitMoves /\ [][NextMoves]_vars

-----------------------------------------------------------------------------
(* Properties *)

Overlays == Cardinality(doc)

\* C1: after any sequence of attach, detach and destroy calls the document
\* holds at most one element of the overlay class.
C1_ExclusiveOverlay == Overlays <= 1

\* reached: a second session has been established and one overlay exists
C1_Witness ==
  /\ hist.lastOp = "attach"
  /\ hist.session = 2
  /\ Overlays = 1

\* C2 (as the code has it): unless something outside the renderer removed
\* the element, exactly one overlay element is in the document from the
\* first attach until destroy, also while detached (detach hides it and
\* leaves it in place); there is none before the first attach and after
\* destroy.
C2_OverlayCount ==
  IF hist.session = 0 \/ ren.isDestroyed \/ hist.removedByHost
  THEN Overlays = 0
  ELSE /\ Overlays = 1
       /\ doc = {cem.cursorEl}
       /\ ~ren.isAttached => cem.el.display = "none"

\* reached: detach has returned and the overlay element is still there
C2_Witness ==
  /\ hist.lastOp = "detach"
  /\ hist.session >= 1
  /\ ~ren.isAttached
  /\ Overlays = 1

\* C2 as stated: one overlay element while attached, none while detached.
C2_AsStated ==
  /\ (ren.isAttached /\ ~hist.removedByHost) => Overlays = 1
  /\ ~ren.isAttached => Overlays = 0

MarkerMatches ==
  host.marker = IF ren.isAttached THEN {ren.editorView} ELSE {}

\* the operations that put the marker where it belongs: attach that
\* establishes a session, detach, destroy, and focus-in or mousedown inside
\* the attached surface
Establishes ==
  \/ hist'.lastOp = "attach" /\ hist'.session # hist.session
  \/ hist'.lastOp \in {"detach", "destroy"}
  \/ /\ hist'.lastOp \in {"focusin", "mousedown"}
     /\ hist'.lastSess # 0
     /\ hist'.lastArg = ren.editorView

C4_AttachIdempotent ==
  [][(/\ hist'.lastOp = "attach"
      /\ hist'.lastArg = ren.editorView
      /\ ren.isAttached
      /\ cem.cursorEl # 0
      /\ cem.cursorEl \in doc)
     => /\ UNCHANGED <<ren, cem, doc, esm, em, nch, cs, cms, dcd, eng, host,
                       cb, tm, settings>>
        /\ hist'.session = hist.session
        /\ log' = {}]_vars

\* reached: an attach call returned without doing anything
C4_Witness ==
  /\ hist.lastOp = "attach"
  /\ hist.lastArg = ren.editorView
  /\ ren.isAttached
  /\ cem.cursorEl \in doc
  /\ log = {}

\* a step ran a callback that a session on another surface had
\* scheduled, while the present session is attached
StaleCallback ==
  /\ hist'.lastOp \in {"dispatchFrame", "recheckFrame", "blurTimer",
                       "updateFrame", "dcdFrame"}
  /\ hist'.lastSess # hist.session
  /\ ren.isAttached
  /\ hist.surface[hist'.lastSess] # ren.editorView

\* C5: a callback scheduled during an earlier session does not change the
\* attached session's typing flag, last known caret offset, overlay
\* visibility, engine position or processing flag.
C5_NoStaleCallbackEffect ==
  [][StaleCallback =>
       /\ ren'.isTyping = ren.isTyping
       /\ ren'.lastUpdateWasTyping = ren.lastUpdateWasTyping
       /\ ren'.typingTimeout = ren.typingTimeout
       /\ ren'.lastCursorPos = ren.lastCursorPos
       /\ cem'.el.display = cem.el.display
       /\ eng'.currentPos = eng.currentPos
       /\ eng'.targetPos = eng.targetPos
       /\ dcd'.isProcessing = dcd.isProcessing]_vars

Others == Views \ {ren.editorView}

\* C6: when attach(B) has returned after a session on A, every listener
\* the targets hold is one the EventManager tracks for the new session,
\* A's dispatch is the host's own function again and A has no
\* __originalDispatch, A carries neither the marker nor the inline
\* overrides, and neither coordinate cache, last successful coordinate nor
\* glyph-width cache holds a value obtained from A.
C6_NoResidue ==
  (hist.lastOp = "attach" /\ ren.isAttached) =>
    /\ host.domListeners = em
    /\ \A l \in em : l.sess = hist.session /\ l.target \notin Others
    /\ \A a \in Others :
         /\ host.dispatch[a] = 0
         /\ ~hasOriginalDispatch(S, a)
         /\ a \notin host.marker
         /\ a \notin host.overrides
         /\ cs.lastSuccessfulCoords.src # a
         /\ \A i \in 1..Len(cs.coordsCache) : cs.coordsCache[i].coords.src # a
         /\ \A e \in cms.charWidthCache : e.src # a

\* reached: attach(B) returned after a session on A and resolved B's caret
C6_Witness ==
  /\ hist.lastOp = "attach"
  /\ hist.session = 2
  /\ hist.surface[1] # hist.surface[2]
  /\ ren.isAttached
  /\ cs.lastSuccessfulCoords.src = ren.editorView
  /\ Cardinality(em) = 6

\* C7: once detach has returned, no timer and no animation frame of the
\* session is pending.
C7_NothingPendingAfterDetach ==
  hist.lastOp = "detach" =>
    /\ ~ren.scrollTimeout
    /\ ~ren.typingTimeout
    /\ ~ren.movementResumeTimeout
    /\ ~dcd.debounceTimeout
    /\ cb.blurTimers = {}
    /\ ~ren.updateScheduled
    /\ cb.dispatchFrames = {}
    /\ cb.recheckFrames = {}
    /\ ~eng.rafId
    /\ ~eng.movementStateTimeout

\* the strategies of the last call that succeeded
Ok1 == rIn.in.s1 # NoCoords
Ok2 == rIn.in.s2 # NoCoords
Ok3 == /\ rIn.in.caret.present
       /\ rIn.in.caret.width > 0 \/ rIn.in.caret.height > 0
Ok4 == rIn.last # NoCoords

\* C8: a call that runs the chain returns the result of the first strategy
\* that succeeds in the order 1, 2, 3, 4, and null exactly when strategies
\* 1 to 3 fail and no earlier resolution of the session succeeded.
C8_FirstSuccessWins ==
  rIn.called =>
    /\ Ok1 => rOut = rIn.in.s1
    /\ (~Ok1 /\ Ok2) => rOut = rIn.in.s2
    /\ (~Ok1 /\ ~Ok2 /\ Ok3) =>
         rOut = Coords(rIn.in.caret.left, rIn.in.caret.top, "A")
    /\ (~Ok1 /\ ~Ok2 /\ ~Ok3 /\ Ok4) => rOut = rIn.last
    /\ rOut = NoCoords <=> (~Ok1 /\ ~Ok2 /\ ~Ok3 /\ ~Ok4)

\* reached: both host strategies failed, the caret element is present with
\* a zero width, and its rectangle was returned
C8_Witness ==
  /\ rIn.called
  /\ ~Ok1 /\ ~Ok2 /\ Ok3
  /\ rIn.in.caret.width = 0
  /\ rIn.last # NoCoords
  /\ rOut.left = rIn.in.caret.left

\* a step handled a change signal of the attached session: the frame after
\* an intercepted dispatch, or the frame after a click or navigation key
SignalHandled ==
  /\ hist'.lastOp \in {"dispatchFrame", "recheckFrame"}
  /\ hist'.lastSess = hist.session

\* C9: after a resolution reported NotFound, the next change signal runs
\* the resolution again (at once, or in the update frame it schedules),
\* also with the caret offset unchanged, as long as the session is
\* attached, the overlay is connected and the surface has focus.
C9_RetryOnNextSignal ==
  [][(/\ hist.notFound
      /\ hist.signal
      /\ ren.isAttached
      /\ isElementConnected(S)
      /\ host.focused = ren.editorView
      /\ esm.cachedIsFocused
      /\ SignalHandled)
     => (Ev("resolve") \in log' \/ ren'.updateScheduled)]_vars

HandedOver == {e \in log : e.ev \in {"animateTo", "setImmediate", "written"}}

\* C10: every position handed to animateTo or setImmediate or written to
\* the overlay has finite x and y and a width and height that are not NaN
\* and not negative.
C10_PositionsValid ==
  \A e \in HandedOver :
    /\ isFinite(e.pos.x) /\ isFinite(e.pos.y)
    /\ ~isNaN(e.pos.width) /\ e.pos.width >= 0
    /\ ~isNaN(e.pos.height) /\ e.pos.height >= 0

-----------------------------------------------------------------------------
(* Cache invalidation on the renderer's change signals *)

\* a signal handler (the frame of an intercepted dispatch, or the recheck
\* frame of a click or a navigation key) found the caret at another offset
OffsetChangeDetected ==
  /\ hist'.lastOp \in {"dispatchFrame", "recheckFrame"}
  /\ hist'.lastSess = hist.session
  /\ ren.isAttached
  /\ ren'.lastCursorPos # ren.lastCursorPos

\* C19: a signal handler that detects an offset change empties the
\* coordinate cache and the glyph-width cache before anything is resolved
\* or measured again: in that handler no cached value is returned, and a
\* cache holds afterwards only what the handler itself resolved or measured.
C19_BothCachesEmptied ==
  [][OffsetChangeDetected
     => /\ Ev("cacheHit") \notin log'
        /\ Ev("widthHit") \notin log'
        /\ (Ev("resolve") \notin log' => cs'.coordsCache = <<>>)
        /\ (Ev("measure") \notin log' => cms'.charWidthCache = {})]_vars

\* every dispatch that changed the content has had its frame
ContentChangesHandled == \A c \in cb.dispatchFrames : ~c.docChanged

\* C20: once the handler of a content change has run, also with the caret
\* offset unchanged, a coordinate that was resolved before the change is
\* never returned from the coordinate cache.  (A layout change is handled
\* 250 ms after the mutation, when no entry older than coordsCacheMaxAge is
\* fresh: only a content change can leave a fresh entry behind its handler.)
C20_NoCoordFromBeforeChange ==
  [][ContentChangesHandled => Ev("staleHit") \notin log']_vars

-----------------------------------------------------------------------------
(* Cursor dimensions and glyph widths *)

\* C17: calculateCursorDimensions gives a line cursor width 2, the base
\* height and offset 0; an underline cursor the base width, height 2 and
\* offset base height - 2; a block cursor or an unrecognised shape the base
\* width and height and offset 0.
C17_Dimensions ==
  rIn.fn = "dimensions" =>
    /\ rIn.shape = "line" =>
         rOut = [width |-> Px(2), height |-> rIn.pos.height, yOffset |-> 0]
    /\ rIn.shape = "underline" =>
         rOut = [width |-> rIn.pos.width, height |-> Px(2),
                 yOffset |-> rIn.pos.height - Px(2)]
    /\ rIn.shape \notin {"line", "underline"} =>
         rOut = [width |-> rIn.pos.width, height |-> rIn.pos.height,
                 yOffset |-> 0]

\* reached: the underline cursor of the base rectangle {10, 20, 8, 18}
C17_Witness ==
  /\ rIn.fn = "dimensions"
  /\ rIn.pos = Position(Px(10), Px(20), Px(8), Px(18))
  /\ rIn.shape = "underline"
  /\ rOut = [width |-> Px(8), height |-> Px(2), yOffset |-> Px(16)]

\* the call under check measured (no cached width) and the host gave no
\* positive distance between the two rectangles
EstimatedCall ==
  /\ rIn.fn = "measure"
  /\ ~rIn.hit
  /\ \/ rIn.in.s1 = NoCoords
     \/ rIn.in.endc = NoCoords
     \/ rIn.in.endc.left <= rIn.in.s1.left

\* C18: without a positive direct measurement the width returned is twice
\* the default width for a character of a wide-glyph range or above
\* U+1F000, and the default width for every other character.
C18_EstimateByCharacter ==
  EstimatedCall =>
    rOut = IF isWideCode(CodePoint(cms.editorView))
           THEN 2 * getDefaultCharWidth(cms.editorView)
           ELSE getDefaultCharWidth(cms.editorView)

-----------------------------------------------------------------------------
(* The animation engine *)

DistSq(a, b) == FSquare(b.x - a.x) + FSquare(b.y - a.y)
DimSq(a, b) == FSquare(b.width - a.width) + FSquare(b.height - a.height)

\* the step is a frame of the running loop
FrameRan ==
  /\ hist'.lastOp = "engineFrame"
  /\ eng.isAnimating
  /\ ~eng.isStopped

\* the position one frame with factor f emits first
FrameStep(f) ==
  Position(lerp(eng.currentPos.x, eng.targetPos.x, f),
           lerp(eng.currentPos.y, eng.targetPos.y, f),
           lerp(eng.currentPos.width, eng.targetPos.width, f),
           lerp(eng.currentPos.height, eng.targetPos.height, f))

\* a frame emits positions that are not farther from the target, in place
\* and in size, than the position before it; the frame that ends the loop
\* emits the target last and leaves the engine on it
FrameCloser ==
  FrameRan =>
    /\ hist'.emitted # <<>>
    /\ \A i \in 1..Len(hist'.emitted) :
         /\ DistSq(hist'.emitted[i], eng.targetPos)
              <= DistSq(eng.currentPos, eng.targetPos)
         /\ DimSq(hist'.emitted[i], eng.targetPos)
              <= DimSq(eng.currentPos, eng.targetPos)
    /\ ~eng'.isAnimating =>
         /\ hist'.emitted[Len(hist'.emitted)] = eng.targetPos
         /\ eng'.currentPos = eng.targetPos
         /\ ~eng'.rafId

\* C11: once animateTo has started the loop, no frame increases the squared
\* distance or the squared size difference to the target, the loop stops
\* after finitely many frames, and the last position emitted is the target.
C11_Converges ==
  /\ [][FrameCloser]_vars
  /\ eng.isAnimating ~> ~eng.isAnimating

\* reached: the loop of one animateTo, not touched by another call, has
\* ended on its target after a frame that was not yet on it
C11_Witness ==
  /\ hist.lastOp = "engineFrame"
  /\ hist.events = 1
  /\ ~eng.isAnimating /\ ~eng.rafId
  /\ Len(hist.emitted) = 2
  /\ hist.emitted[1] # hist.emitted[2]
  /\ hist.emitted[2] = eng.targetPos
  /\ eng.currentPos = Position(Px(10), Px(20), Px(8), Px(18))

RECURSIVE FramesUntilSnap(_)
\* the number of frames the loop of state s runs until it stops
FramesUntilSnap(s) ==
  IF ~s.eng.isAnimating THEN 0 ELSE 1 + FramesUntilSnap(animate(s))

\* the step is an animateTo that started the loop, with the typing profile
\* enabled and configured shorter than the navigation profile
ProfilesComparable ==
  /\ hist'.lastOp = "animateTo"
  /\ ~eng.isAnimating /\ eng'.isAnimating
  /\ settings.enableInsertModeAnimation
  /\ settings.insertModeAnimationDuration < settings.animationDuration

FramesWith(isTyping) ==
  FramesUntilSnap(animateTo(S, hist'.lastArg.target, isTyping))

\* C12: from the same start to the same target, with the typing duration
\* shorter than the navigation duration, the loop started with
\* isTyping = true never needs more frames than the loop started with
\* isTyping = false.
C12_TypingNotSlower ==
  [][ProfilesComparable => FramesWith(TRUE) <= FramesWith(FALSE)]_vars

\* reached: an animation that the typing profile ends in fewer frames
C12_Witness ==
  /\ hist.lastOp = "animateTo"
  /\ hist.events = 1
  /\ eng.isAnimating
  /\ settings.enableInsertModeAnimation
  /\ settings.insertModeAnimationDuration < settings.animationDuration
  /\ FramesUntilSnap([S EXCEPT !.eng.isCurrentlyTyping = TRUE])
       < FramesUntilSnap([S EXCEPT !.eng.isCurrentlyTyping = FALSE])

\* C12 as stated: the typing loop always needs fewer frames.
C12_AsStated ==
  [][ProfilesComparable => FramesWith(TRUE) < FramesWith(FALSE)]_vars

\* C13: every frame applies the factor min(1, 16 / max(d, 16)), d being the
\* configured duration of the profile the frame uses.
C13_FactorFromDuration ==
  [][FrameRan =>
       hist'.emitted[1] =
         FrameStep(lerpFactorOf(IF eng.isCurrentlyTyping
                                THEN settings.insertModeAnimationDuration
                                ELSE settings.animationDuration))]_vars

\* C14: every frame of a loop moves by the factor of the profile that the
\* animateTo call which started the loop selected.
C14_ProfileOfStart ==
  [][FrameRan =>
       hist'.emitted[1] = FrameStep(IF hist.profile
                                    THEN eng.cachedTypingLerpFactor
                                    ELSE eng.cachedLerpFactor)]_vars

\* the step is an animateTo that does not animate
DirectCall ==
  /\ hist'.lastOp = "animateTo"
  /\ \/ ~settings.enableAnimation
     \/ hist'.lastArg.isTyping /\ ~settings.enableInsertModeAnimation

\* C15: with animation disabled, or typing animation disabled and
\* isTyping, animateTo puts the engine on the target within the call,
\* invokes the frame callback once, with the target, reports 'movement
\* started' exactly if movement was not active, and leaves one 'movement
\* stopped' timer pending.
C15_DirectJump ==
  [][DirectCall =>
       /\ eng'.currentPos = hist'.lastArg.target
       /\ hist'.emitted = <<hist'.lastArg.target>>
       /\ (Ev("movementStarted") \in log') = ~eng.isMovementActive
       /\ eng'.isMovementActive
       /\ eng'.movementStateTimeout]_vars

\* reached: animateTo(target, true) with typing animation disabled jumped
\* while the loop of an earlier navigation animateTo was still running
C15_Witness ==
  /\ hist.lastOp = "animateTo"
  /\ hist.events = 2
  /\ hist.lastArg.isTyping
  /\ settings.enableAnimation /\ ~settings.enableInsertModeAnimation
  /\ eng.isAnimating /\ eng.rafId
  /\ hist.emitted = <<hist.lastArg.target>>
  /\ eng.currentPos = hist.lastArg.target
  /\ eng.movementStateTimeout

\* C16: setImmediate(position) leaves no frame pending and isRunning()
\* false, puts current and target on position and invokes the frame
\* callback once, with position; a frame emits only in a loop, and only
\* animateTo starts a loop.
C16_SetImmediateCancels ==
  [][/\ hist'.lastOp = "setImmediate" =>
          /\ ~eng'.rafId /\ ~eng'.isAnimating
          /\ eng'.currentPos = hist'.lastArg
          /\ eng'.targetPos = hist'.lastArg
          /\ hist'.emitted = <<hist'.lastArg>>
     /\ hist'.lastOp = "engineFrame" /\ hist'.emitted # <<>> =>
          eng.isAnimating /\ eng.rafId
     /\ ~eng.isAnimating /\ eng'.isAnimating =>
          hist'.lastOp = "animateTo"]_vars

\* reached: setImmediate cancelled a running loop (movement is active and
\* no 'movement stopped' timer is pending: no frame had ended the loop)
C16_Witness ==
  /\ hist.lastOp = "setImmediate"
  /\ hist.events = 2
  /\ ~eng.rafId /\ ~eng.isAnimating
  /\ eng.isMovementActive /\ ~eng.movementStateTimeout
  /\ eng.currentPos = hist.lastArg
  /\ hist.emitted = <<hist.lastArg>>

-----------------------------------------------------------------------------
(* The coordinate cache's capacity *)

\* C21: the coordinate cache never holds more than coordsCacheMaxSize
\* entries, and an insertion that exceeds the capacity evicts exactly the
\* entry with the smallest resolution timestamp.
C21_EvictsOldest ==
  /\ Len(cs.coordsCache) <= coordsCacheMaxSize
  /\ rIn.evicted # {} => rIn.evicted = {rIn.oldest}

-----------------------------------------------------------------------------
(* Self-healing of the overlay and of the marker class *)

\* the host removed the overlay of the attached session and no attach
\* created another since
OverlayLost ==
  /\ ren.isAttached /\ ~ren.isDestroyed
  /\ hist.removedByHost
  /\ ~isElementConnected(S)

\* C22: when the overlay of an attached session is disconnected, the next
\* position update, which runs the forced health check, recreates it: the
\* update leaves exactly one connected overlay, without another attach.
C22_OverlayRecreated ==
  [][OverlayLost /\ hist'.lastOp = "updateFrame"
       => /\ cem'.cursorEl \in doc'
          /\ Cardinality(doc') = 1]_vars


\* the marker class is missing from the surface of the attached session
MarkerStripped ==
  /\ ren.isAttached /\ ~ren.isDestroyed
  /\ ren.editorView \notin host.marker

\* C23: when the host removes the marker class from the attached surface,
\* the periodic health pass puts it back, also when no focus, click or other
\* user event occurs.
C23_MarkerRestored ==
  MarkerStripped ~> ren.editorView \in host.marker

-----------------------------------------------------------------------------
(* The throttled focus state *)

\* the surface the state manager is attached to really has the focus
ReallyFocused == isEditorFocused(S, esm.editorView)

\* isFocused(false) and isFocused(true), called in the current state
FocusCalls ==
  LET unforced == isFocused(S, FALSE)
      forced == isFocused(S, TRUE)
  IN /\ esm.editorView = NoView =>
          /\ ~unforced.ret /\ ~forced.ret
          /\ unforced.log = {} /\ forced.log = {}
     /\ esm.editorView # NoView /\ tm.focusFresh =>
          /\ unforced.ret = esm.cachedIsFocused
          /\ unforced.esm = esm /\ unforced.tm = tm
          /\ Ev("focusQuery") \notin unforced.log
     /\ esm.editorView # NoView =>
          /\ forced.ret = ReallyFocused
          /\ forced.esm.cachedIsFocused = ReallyFocused
          /\ forced.tm.focusFresh
          /\ Ev("focusQuery") \in forced.log

\* what a step of the attached session shows of the isFocused calls it
\* made (attach itself stores a focus state before it calls isFocused)
FocusAnswer ==
  /\ Ev("focusCached") \in log' /\ Ev("focusQuery") \notin log' =>
       /\ tm.focusFresh /\ tm'.focusFresh
       /\ esm'.cachedIsFocused = esm.cachedIsFocused
       /\ (Ev("focusYes") \in log') = esm.cachedIsFocused
  /\ Ev("focusQuery") \in log' =>
       /\ tm'.focusFresh
       /\ esm'.cachedIsFocused = isEditorFocused(S', esm'.editorView)
       /\ (Ev("focusYes") \in log') = esm'.cachedIsFocused
  /\ hist'.lastOp = "blurTimer" /\ ren.editorView # NoView =>
       Ev("focusQuery") \in log'

\* C24: an unforced isFocused inside the 100 ms window answers with the
\* value of the last recomputation and neither asks the DOM nor changes the
\* cache, whatever the real focus is by then; a forced isFocused (the 10 ms
\* timer of focus-out is one) always asks the DOM, stores the answer and
\* opens the window anew; without a surface the answer is false.
C24_FocusThrottled ==
  [][FocusCalls /\ (hist'.lastOp # "attach" => FocusAnswer)]_vars

\* reached: an unforced call answered from the cache although the real
\* focus had changed since the recomputation
C24_Witness ==
  /\ Ev("focusCached") \in log
  /\ esm.editorView # NoView
  /\ esm.cachedIsFocused # ReallyFocused

-----------------------------------------------------------------------------
(* The overlay's moving state *)

\* the overlay carries the 'moving' class
Moving == cem.cursorEl # 0 /\ cem.el.moving

\* the step called the engine's animateTo
AnimateToCalled == \E e \in log' : e.ev = "animateTo"

\* the engine is at rest and its 'movement stopped' debounce has fired
EngineSettled ==
  /\ ~eng.isAnimating /\ ~eng.rafId
  /\ ~eng.isMovementActive /\ ~eng.movementStateTimeout

MovingKept ==
  /\ AnimateToCalled =>
       /\ cem'.el.moving
       /\ ~ren'.movementResumeTimeout
       /\ eng'.movementStateTimeout => ~eng'.isAnimating
  /\ Moving /\ ~cem'.el.moving =>
       /\ hist'.lastOp = "movementResume"
       /\ EngineSettled
  /\ ren.movementResumeTimeout => ~eng.isMovementActive

-----------------------------------------------------------------------------
(* The native-caret suppressor *)

\* what a step does to the inline overrides of surface v
Released(v) ==
  /\ nch.editorView = v /\ nch'.editorView # v => v \notin host'.overrides
  /\ v \notin host.overrides /\ v \in host'.overrides => nch'.editorView = v
  /\ nch.editorView # v /\ nch'.editorView # v => v \notin host'.overrides

\* C26: the step in which the suppressor leaves a surface takes the inline
\* overrides off its caret elements and its content node, and no later step
\* (observer, observer frame, 100 ms interval, forceHide) puts them on a
\* surface the suppressor is not attached to.
C26_SuppressorReleases == [][\A v \in Views : Released(v)]_vars

\* reached: after the session on a surface ended, a frame or interval tick
\* of the suppressor ran and the surface carries no override
C26_Witness ==
  /\ hist.lastOp \in {"nchFrame", "nchInterval"}
  /\ hist.session > 0
  /\ nch.editorView = NoView
  /\ host.overrides = {}

-----------------------------------------------------------------------------
(* The hidden overlay *)

\* hide() parked the overlay and nothing has written its position since
ParkedHidden ==
  /\ cem.cursorEl # 0
  /\ cem.el.display = "none"
  /\ cem.el.left = Parked /\ cem.el.top = Parked

\* C27: a step that does not call show() leaves a hidden, parked overlay in
\* place and parked: its node is kept and its left and top stay at the
\* off-screen position.
C27_HiddenStaysParked ==
  [][ParkedHidden /\ Ev("show") \notin log' /\ hist'.lastOp # "destroy"
       /\ cem'.cursorEl = cem.cursorEl
       => cem'.el.left = Parked /\ cem'.el.top = Parked]_vars


\* C28: in an attached session every animateTo that leaves the engine's
\* frame loop running leaves the overlay in the moving state, also the
\* first one after a detach/attach switch and one that follows a
\* setImmediate.
C28_MovingWhileAnimating ==
  [][AnimateToCalled /\ ren'.isAttached /\ eng'.isAnimating /\ eng'.rafId
       => cem'.cursorEl # 0 /\ cem'.el.moving]_vars

-----------------------------------------------------------------------------
(* Focus entering the attached surface *)

\* the overlay is shown at an on-screen position
Visible ==
  /\ isElementConnected(S)
  /\ cem.el.display = "block"
  /\ cem.el.left > HiddenLimit /\ cem.el.top > HiddenLimit

\* C29: when the handler of a focus-in on the attached surface and the
\* update it scheduled have run, the surface has the focus and its
\* coordinates resolve, the overlay is visible, whatever focus state an
\* earlier check cached.
C29_FocusInShows ==
  [][/\ hist.lastOp = "focusin" /\ hist'.lastOp = "updateFrame"
     /\ host.focused = ren.editorView
     /\ isElementConnected(S)
     => Visible']_vars

-----------------------------------------------------------------------------
(* The scroll window *)

\* the step called the engine's setImmediate
SetImmediateCalled == \E e \in log' : e.ev = "setImmediate"

\* the step ends the session or starts another
SessionChanged == hist'.lastOp \in {"attach", "detach", "destroy"}

ScrollWindow ==
  /\ hist'.lastOp = "scroll" /\ hist'.lastSess = hist.session =>
       ren'.isScrolling /\ ren'.scrollTimeout
  /\ ren.isScrolling => ren.scrollTimeout
  /\ ren.isScrolling /\ ~ren'.isScrolling /\ ~SessionChanged =>
       hist'.lastOp = "scrollTimeout"
  /\ ren.isScrolling /\ ~SessionChanged => ~AnimateToCalled
  /\ hist'.lastOp = "scrollTimeout" =>
       /\ ~ren'.isScrolling /\ ~ren'.scrollTimeout
       /\ ~SetImmediateCalled
       /\ Ev("focusYes") \in log' => ren'.updateScheduled
       /\ Ev("focusYes") \notin log' => ren'.updateScheduled = ren.updateScheduled

ChangeCallbackRan == Ev("changeCallback") \in log'

DebounceStep ==
  /\ ChangeCallbackRan =>
       /\ hist'.lastOp = "dcdDebounce"
       /\ dcd.debounceTimeout /\ dcd.isActive
       /\ dcd'.isProcessing
       /\ hist.session \in cb'.dcdFrames
  /\ hist'.lastOp = "dcdDebounce" => ~dcd'.debounceTimeout
  /\ hist'.lastOp = "domMutation" =>
       /\ ~ChangeCallbackRan
       /\ IF dcd.isActive /\ ~dcd.isProcessing
          THEN dcd'.debounceTimeout
          ELSE dcd' = dcd /\ cb' = cb
  /\ (dcd'.debounceTimeout /\ ~dcd.debounceTimeout) =>
       hist'.lastOp = "domMutation"
  /\ (dcd.isProcessing /\ ~dcd'.isProcessing) =>
       hist'.lastOp \in {"dcdFrame", "attach", "detach", "destroy"}
  /\ ~dcd'.isActive => ~dcd'.debounceTimeout

\* C31: the detector's callback runs only when its debounce timer fires,
\* once per armed timer; every qualifying mutation leaves exactly that one
\* timer armed anew and only a mutation arms it; a mutation observed after
\* the callback and before an animation frame of the detector (or a
\* detach) changes nothing and arms no timer; while the detector is
\* detached no timer is pending, so no callback follows a detach.
C31_Debounced == [][DebounceStep]_vars

\* reached: a mutation was observed and ignored while the callback of an
\* earlier burst was still settling
C31_Witness ==
  /\ hist.lastOp = "domMutation"
  /\ dcd.isProcessing
  /\ ~dcd.debounceTimeout
  /\ cb.dcdFrames # {}


\* the step ran the frame of an intercepted dispatch whose transaction
\* had the given docChanged, in an attached session
UpdateHandled(docChanged) ==
  /\ hist'.lastOp = "dispatchFrame"
  /\ ren.isAttached /\ ren.editorView # NoView
  /\ \E c \in cb.dispatchFrames \ cb'.dispatchFrames : c.docChanged = docChanged

TypingArmed == Ev("typingArmed") \in log'

TypingStep ==
  /\ UpdateHandled(TRUE) => ren'.isTyping /\ ren'.typingTimeout /\ TypingArmed
  /\ UpdateHandled(FALSE) =>
       /\ ren'.isTyping = ren.isTyping
       /\ ren'.typingTimeout = ren.typingTimeout
       /\ ~TypingArmed
  /\ TypingArmed => UpdateHandled(TRUE)
  /\ (ren'.isTyping /\ ~ren.isTyping) => TypingArmed
  /\ (ren'.typingTimeout /\ ~ren.typingTimeout) => TypingArmed
  /\ (ren.isTyping /\ ~ren'.isTyping) =>
       hist'.lastOp \in {"typingTimeout", "detach", "attach", "destroy"}
  /\ hist'.lastOp \in {"detach", "destroy"} =>
       ~ren'.isTyping /\ ~ren'.typingTimeout
  /\ ren'.isTyping => ren'.typingTimeout

\* C32: an update with a content change sets the typing flag and arms the
\* one 150 ms clear timer anew; the flag stays set, with that timer
\* pending, until the timer fires or the session is detached; an update
\* without a content change, a click, a navigation key or a scheduled
\* recomputation neither sets the flag nor arms the timer; detach leaves
\* the flag clear and no timer pending.
C32_TypingWindow == [][TypingStep]_vars

\* reached: a pure-navigation update was handled inside the typing window
\* and left the window as it was
C32_Witness ==
  /\ hist.lastOp = "dispatchFrame"
  /\ ren.isTyping /\ ren.typingTimeout
  /\ ~ren.lastUpdateWasTyping
  /\ Ev("typingArmed") \notin log


-----------------------------------------------------------------------------
(* One attached session on the focused surface "A" while the user types,   *)
(* clicks and presses navigation keys: nothing calls attach, detach or     *)
(* destroy and the focus stays.                                             *)

NextSignals ==
  \/ HostDispatch \/ Click \/ KeyDown \/ TimePasses
  \/ DispatchFrame \/ RecheckFrame \/ UpdateFrame \/ TypingTimeout
  \/ EngineFrame \/ EngineMovementTimer \/ MovementResume

SpecSignals == InitMoves /\ [][NextSignals]_vars

\* the step called animateTo with a target at another place than the
\* engine's target before
CaretMoveAnimated ==
  \E e \in log' : e.ev = "animateTo" /\ e.pos.x # eng.targetPos.x

\* C33: whenever the renderer animates the overlay to a caret that has
\* moved, the isTyping argument of animateTo tells whether the transaction
\* that moved the caret changed the document.
C33_TypingArgument ==
  [][CaretMoveAnimated => eng'.isCurrentlyTyping = hist'.typedMove]_vars




\* the step is a mode change that resolves to another shape than the
\* overlay's tag, in an attached session
ShapeChangeStep ==
  /\ hist'.lastOp = "modeChange"
  /\ ren.modeSubscribed /\ ren.isAttached /\ ren.editorView # NoView
  /\ cem.cursorEl # 0
  /\ cursorShapes(host'.mode) # elShape(S)

\* the dimensions the overlay displays, or the engine's dimensions under
\* the old shape when it displays none, at the engine's place
SeedPosition ==
  LET old == calculateCursorDimensions(eng.currentPos, elShape(S))
  IN IF cem.el.width > 0 /\ cem.el.height > 0
     THEN Position(eng.currentPos.x, eng.currentPos.y,
                   cem.el.width, cem.el.height)
     ELSE Position(eng.currentPos.x, eng.currentPos.y, old.width, old.height)

\* the last step was a mode change that seeded the engine
ShapeChanged ==
  /\ hist.lastOp = "modeChange"
  /\ \E e \in log : e.ev = "setImmediate"

ShapeSeeded ==
  ShapeChangeStep =>
    /\ EvPos("setImmediate", SeedPosition) \in log'
    /\ ~AnimateToCalled
    /\ eng'.currentPos = SeedPosition /\ eng'.targetPos = SeedPosition
    /\ cem'.el.top = applyCursorPosition(S, SeedPosition).cem.el.top
    /\ cem'.el.shape = cursorShapes(host'.mode)
    /\ ren'.updateScheduled

ShapeAnimated ==
  (/\ ShapeChanged /\ hist'.lastOp = "updateFrame"
   /\ ~ren.isScrolling
   /\ AnimateToCalled \/ SetImmediateCalled)
    => AnimateToCalled /\ ~SetImmediateCalled

\* C34: a mode change that resolves to another shape in an attached
\* session seeds the engine (current = target) with the displayed width
\* and height, or with the engine's dimensions under the old shape when
\* none is displayed, writes that seed under the old tag, then sets the
\* new tag and leaves a recomputation scheduled; when that recomputation's
\* frame runs next, outside a scroll window, and reaches the engine, it
\* does so through animateTo and not through setImmediate.
C34_ShapeTransition == [][ShapeSeeded /\ ShapeAnimated]_vars

\* reached: a mode change has just given the visible overlay of a focused
\* session another shape; the engine holds the displayed dimensions and
\* the recomputation is scheduled
C34_Witness ==
  /\ ShapeChanged
  /\ ren.isAttached /\ host.focused = ren.editorView
  /\ cem.el.display = "block" /\ cem.el.left > HiddenLimit
  /\ cem.el.width > 0
  /\ eng.currentPos.width = cem.el.width
  /\ ren.updateScheduled

\* C34 as stated: the recomputation a shape change schedules always
\* reaches the engine as animateTo
C34_AsStated ==
  [][(ShapeChanged /\ hist'.lastOp = "updateFrame")
       => AnimateToCalled /\ ~SetImmediateCalled]_vars


\* at most one frame callback of the engine is pending, and isRunning()
\* tells whether one is
OneFrameChain ==
  /\ cb.engineFrames <= 1
  /\ eng.isAnimating <=> cb.engineFrames = 1
  /\ eng.rafId <=> cb.engineFrames = 1

\* an animateTo call made while the loop runs asks for no frame
NoSecondChain ==
  (AnimateToCalled /\ eng.isAnimating) =>
    /\ cb'.engineFrames = cb.engineFrames
    /\ eng'.isAnimating

\* C35: in every reachable state of the engine at most one of its frame
\* callbacks is pending and isRunning() is true exactly when one is; an
\* animateTo call made while the loop is running leaves that one callback
\* pending and asks for no other.
C35_SingleFrameChain == []OneFrameChain /\ [][NoSecondChain]_vars

\* reached: animateTo was called while the loop was between two frames of
\* an earlier animateTo, and one callback is pending
C35_Witness ==
  /\ hist.lastOp = "animateTo"
  /\ hist.events = 2
  /\ eng.isAnimating /\ cb.engineFrames = 1
  /\ eng.currentPos \notin EnginePositions \cup {Position(0, 0, 0, 0)}


\* the call interpolates: animation is enabled, and enabled for typing
\* when the call is a typing one
Interpolated(isTyping) ==
  settings.enableAnimation /\ (isTyping => settings.enableInsertModeAnimation)

RetargetStep ==
  /\ (hist'.lastOp = "animateTo" /\ eng.isAnimating) =>
       /\ eng'.targetPos = hist'.lastArg.target
       /\ eng'.isAnimating
       /\ Interpolated(hist'.lastArg.isTyping) =>
            /\ eng'.currentPos = eng.currentPos
            /\ hist'.emitted = <<>>
  /\ hist'.lastOp = "engineFrame" =>
       /\ eng'.targetPos = eng.targetPos
       /\ (eng.isAnimating /\ ~eng'.isAnimating) =>
            hist'.emitted[Len(hist'.emitted)] = eng.targetPos

\* the last call the engine receives was an animateTo and the loop runs
\* toward its target
LastTarget ==
  /\ hist.lastOp = "animateTo"
  /\ hist.events = MaxCalls
  /\ eng.isAnimating
  /\ eng.targetPos = hist.lastArg.target

\* a frame has ended the loop, emitted the target last and left the
\* engine on it
StoppedOnTarget ==
  /\ hist.lastOp = "engineFrame"
  /\ ~eng.isAnimating
  /\ hist.emitted # <<>>
  /\ hist.emitted[Len(hist.emitted)] = eng.targetPos
  /\ eng.currentPos = eng.targetPos

\* C36: an animateTo call made while the loop runs replaces the target and
\* leaves the loop running; when the call interpolates, the engine keeps
\* its current interpolated position and emits nothing; no frame changes
\* the target, and the frame that ends the loop emits the target last; once
\* the last animateTo call has been made, the loop stops with the last
\* emitted position equal to that call's target.
C36_Retargeted ==
  /\ [][RetargetStep]_vars
  /\ LastTarget ~> StoppedOnTarget

\* reached: a second animateTo has redirected the loop, between two of its
\* frames, to the line cursor in the cell before
C36_Witness ==
  /\ hist.lastOp = "animateTo"
  /\ hist.events = 2
  /\ eng.isAnimating
  /\ eng.targetPos = Position(Px(2), Px(20), Px(2), Px(18))
  /\ eng.currentPos.x > Px(2)
  /\ eng.currentPos \notin EnginePositions \cup {Position(0, 0, 0, 0)}


\* C37: once the engine has notified 'movement started' and receives no
\* further call, it notifies 'movement stopped', whether the animation
\* ended on its target, by stop() or by a setImmediate that cancelled it.
C37_MovementStops ==
  (eng.isMovementActive /\ hist.events = MaxCalls) ~> ~eng.isMovementActive


-----------------------------------------------------------------------------
(* The overlay coming out of hiding *)

\* the overlay is not displayed or is parked off-screen
Hidden ==
  /\ cem.cursorEl # 0
  /\ \/ cem.el.display = "none"
     \/ cem.el.left <= HiddenLimit
     \/ cem.el.top <= HiddenLimit

\* the step has left the overlay displayed at an on-screen position
ShownAfter ==
  /\ cem'.cursorEl # 0 /\ cem'.cursorEl \in doc'
  /\ cem'.el.display = "block"
  /\ cem'.el.left > HiddenLimit /\ cem'.el.top > HiddenLimit

\* the step placed the overlay through setImmediate, at the position it
\* handed to the engine, and did not call animateTo
PlacedImmediately ==
  /\ ~AnimateToCalled
  /\ EvPos("setImmediate", eng'.currentPos) \in log'
  /\ eng'.targetPos = eng'.currentPos
  /\ cem'.el.left = eng'.currentPos.x
  /\ cem'.el.width = eng'.currentPos.width

\* C38: a step that finds the overlay hidden (not displayed, or parked
\* off-screen) and leaves it displayed on-screen has placed it through
\* setImmediate at the target it computed, without a call of animateTo.
C38_AppearsAtTarget == [][(Hidden /\ ShownAfter) => PlacedImmediately]_vars


-----------------------------------------------------------------------------
(* One attached session on the focused surface "A" whose host re-creates   *)
(* its caret elements, rewrites the style of its content node and changes  *)
(* its layout, while the suppressor's interval and the detector's timer    *)
(* and frame run: nothing calls attach, detach or destroy.                 *)

NextSuppress ==
  \/ CaretRecreated \/ ContentRestyled \/ DomMutation \/ TimePasses
  \/ NchFrame \/ NchInterval \/ DcdDebounce \/ DcdFrame
  \/ UpdateFrame \/ EngineFrame \/ EngineMovementTimer \/ MovementResume

SpecSuppress == InitMoves /\ [][NextSuppress]_vars

\* the step ran the suppressor's interval or its frame
SuppressorWrote == hist'.lastOp \in {"nchInterval", "nchFrame"}

\* C39: a step in which the suppressor re-asserts its inline overrides is
\* never classified by the detector as layout-affecting and leaves the
\* detector's debounce timer as it was.
C39_OwnWritesIgnored ==
  [][SuppressorWrote =>
       /\ Ev("layoutAffecting") \notin log'
       /\ dcd'.debounceTimeout = dcd.debounceTimeout]_vars


-----------------------------------------------------------------------------
(* The movement notifications of the engine *)

Started == Ev("movementStarted")
Stopped == Ev("movementStopped")

\* a step delivers 'started' only to an idle callback and 'stopped' only
\* to an active one, and the movement flag turns only with a delivery
AlternateStep ==
  /\ Started \in log' => ~eng.isMovementActive /\ eng'.isMovementActive
  /\ Stopped \in log' => eng.isMovementActive /\ ~eng'.isMovementActive
  /\ ~eng.isMovementActive /\ eng'.isMovementActive => Started \in log'
  /\ eng.isMovementActive /\ ~eng'.isMovementActive =>
       /\ Stopped \in log'
       /\ hist'.lastOp = "engineMovementTimer"

\* the browser holds the timer the engine's handle names, and no other
OneMovementTimer ==
  cb.movementTimers = (IF eng.movementStateTimeout THEN 1 ELSE 0)

\* C40: the notifications delivered to the movement callback alternate,
\* beginning with 'started': 'started' is delivered only while the last
\* delivery was not 'started' (the movement flag is down), 'stopped' only
\* while it was 'started' (the flag is up), no step delivers both, and at
\* most one movement-stopped timer is pending at any time.
C40_Alternation ==
  /\ []OneMovementTimer
  /\ [](~eng.isMovementActive \/ Started \notin log \/ Stopped \notin log)
  /\ [][AlternateStep]_vars

\* reached: after both calls, each of which re-armed the timer, the one
\* timer pending fired and delivered 'stopped' to the active callback
C40_Witness ==
  /\ hist.lastOp = "engineMovementTimer"
  /\ Stopped \in log
  /\ ~eng.isMovementActive
  /\ cb.movementTimers = 0
  /\ hist.events = MaxCalls

=============================================================================
